---- MODULE Spec2Model ----
(***************************************************************************)
(* Model of the DART ingestion producer (src/producer): the in-memory      *)
(* ProcessingState, the object store client, the per-item pipeline         *)
(* process_document and the polling loop that drives it.                   *)
(*                                                                         *)
(* Two specifications are given:                                           *)
(*   StateSpec - any sequence of mark_processed / mark_skipped /           *)
(*               record_failure calls on one ProcessingState;              *)
(*   Spec      - the polling loop of main.py with its environment (list    *)
(*               API, document API, object store, queue, signals and       *)
(*               process restarts).                                        *)
(***************************************************************************)
EXTENDS Integers, Sequences, FiniteSets, TLC

VARIABLES
    state,            \* ProcessingState (main.py:65-127)
    max_fail,         \* config.polling.max_fail
    log,              \* StateSpec: the calls made on ProcessingState so far
    pc,               \* position of the polling thread in polling_loop
    shutdown,         \* GracefulShutdown._shutdown_event
    page_no,          \* polling_loop local
    total_pages,      \* polling_loop local
    all_disclosures,  \* polling_loop local
    new_disclosures,  \* polling_loop local
    idx,              \* position of the for loop in new_disclosures
    waiting,          \* timeout of the shutdown.wait() the thread is blocked in
    bucket,           \* names of the objects held by the MinIO bucket
    queue,            \* messages handed to celery_app.send_task, in order
    failure_log,      \* FailureRecorder: names of the files in log_dir
    last,             \* what the process_document call just made did
    life,             \* this process lifetime: fetches, uploads and messages
                      \* per rcept_no
    cycles,           \* polling cycles started, over all process lifetimes
    polled,           \* PollSpec: the list requests of this cycle, in order
    call,             \* the call of a function made last: name, input, result
    mock,             \* a MockDartApiClient and what its last call returned
    health            \* main(): its threads and its HealthCheckServer

stateVars == <<state, max_fail, log>>
loopVars  == <<pc, shutdown, page_no, total_pages, all_disclosures,
               new_disclosures, idx, waiting, cycles>>
worldVars == <<bucket, queue, failure_log>>
obsVars   == <<last, life>>
callVars  == <<call, mock, health>>
vars == <<state, max_fail, log, pc, shutdown, page_no, total_pages,
          all_disclosures, new_disclosures, idx, waiting, bucket, queue,
          failure_log, last, life, cycles, polled, call, mock, health>>

(***************************************************************************)
(* Bounds of the model.                                                    *)
(***************************************************************************)
MaxMaxFail  == 2   \* max_fail ranges over 1..MaxMaxFail
MaxCalls    == 4   \* StateSpec: number of ProcessingState calls
MaxCycles   == 2   \* Spec: polling cycles started
MaxPages    == 2   \* Spec: total_page reported by the list API
MaxRetries  == 3   \* UpsertSpec: max_retries ranges over 0..MaxRetries
MaxMembers  == 3   \* NormalizeSpec: entries of the enumerated archives
MaxSeqs     == 6   \* MockSpec: sequence numbers drawn (code: 900000)
MaxFailures == 6   \* HealthSpec: cap of DartApiHealthChecker's failure count

(***************************************************************************)
(* Program constants.                                                      *)
(***************************************************************************)
MinFileSize         == 200    \* main.py:218
RateLimitWait       == 3600   \* main.py:361
MaintenanceWait     == 300    \* main.py:366
DefaultInterval     == 300    \* config.py:137
SeqLow              == 100000 \* mock_dart_client.py:79
NumLow              == 3      \* mock_dart_client.py:130
NumHigh             == 8      \* mock_dart_client.py:130

(***************************************************************************)
(* Disclosures (models/disclosure.py).  A receipt number is a 14-digit     *)
(* string.  An item of the list API is a dict of strings; from_dict makes  *)
(* a Disclosure of it.  Python's None is the value PyNone.                 *)
(***************************************************************************)
RceptNos == {"20241125000001", "20241125000002"}

PyNone == "<None>"

\* the items the provider lists: a listed issuer with every field set, and
\* an unlisted one (stock_code "", rm "", no flr_nm)
RawItem(no) ==
    IF no = "20241125000001"
    THEN [corp_code |-> "00126380", corp_name |-> "Samsung", stock_code |-> "005930",
          corp_cls |-> "Y", report_nm |-> "Quarterly report", rcept_no |-> no,
          flr_nm |-> "Samsung", rcept_dt |-> "20241125", rm |-> "Y"]
    ELSE [corp_code |-> "00999999", corp_name |-> "Unlisted", stock_code |-> "",
          corp_cls |-> "E", report_nm |-> "Audit report", rcept_no |-> no,
          rcept_dt |-> "20241125", rm |-> ""]

required_keys ==
    {"corp_code", "corp_name", "corp_cls", "report_nm", "rcept_no", "rcept_dt"}

\* models/disclosure.py:57-62: from_dict raises TypeError
from_dict_raises(data) ==
    \E key \in required_keys : key \notin DOMAIN data \/ data[key] = PyNone

\* models/disclosure.py:65-73: `value or None` of an optional field
or_none(data, key) ==
    IF key \in DOMAIN data /\ data[key] # "" THEN data[key] ELSE PyNone

\* models/disclosure.py:75-87
from_dict(data) ==
    [corp_code  |-> data["corp_code"],
     corp_name  |-> data["corp_name"],
     stock_code |-> or_none(data, "stock_code"),
     corp_cls   |-> data["corp_cls"],
     report_nm  |-> data["report_nm"],
     rcept_no   |-> data["rcept_no"],
     flr_nm     |-> or_none(data, "flr_nm"),
     rcept_dt   |-> data["rcept_dt"],
     rm         |-> or_none(data, "rm")]

Disclosure(no) == from_dict(RawItem(no))

Disclosures == {Disclosure(no) : no \in RceptNos}

(***************************************************************************)
(* ProcessingState (main.py:65-127).  failed_attempts is a dict: a         *)
(* function whose DOMAIN is its key set.                                   *)
(***************************************************************************)
EmptyDict == [x \in {} |-> 0]

ProcessingState ==
    [processed          |-> {},
     failed_attempts    |-> EmptyDict,
     permanently_failed |-> {},
     success_count      |-> 0,
     skip_count         |-> 0,
     error_count        |-> 0]

\* dict helpers: d.get(k, 0), d[k] = v, del d[k]
dict_get(d, k) == IF k \in DOMAIN d THEN d[k] ELSE 0

dict_set(d, k, v) == [x \in (DOMAIN d) \cup {k} |-> IF x = k THEN v ELSE d[x]]

dict_del(d, k) == [x \in (DOMAIN d) \ {k} |-> d[x]]

\* is_processed without the permanently failed identifiers
is_processed_succeeded_only(st, rcept_no) ==
    rcept_no \in st.processed \ st.permanently_failed

is_processed(st, rcept_no) ==
    rcept_no \in st.processed \/ rcept_no \in st.permanently_failed

mark_processed_forgets(st, rcept_no) ==
    [st EXCEPT !.success_count = @ + 1,
               !.failed_attempts = IF rcept_no \in DOMAIN @
                                   THEN dict_del(@, rcept_no) ELSE @]

mark_processed(st, rcept_no) ==
    [st EXCEPT !.processed = @ \cup {rcept_no},
               !.success_count = @ + 1,
               !.failed_attempts = IF rcept_no \in DOMAIN @
                                   THEN dict_del(@, rcept_no) ELSE @]

\* mark_skipped without its skip_count
mark_skipped_uncounted(st, rcept_no) ==
    [st EXCEPT !.processed = @ \cup {rcept_no}]

\* mark_skipped that also counts a success
mark_skipped_as_success(st, rcept_no) ==
    [st EXCEPT !.processed = @ \cup {rcept_no},
               !.skip_count = @ + 1,
               !.success_count = @ + 1]

mark_skipped(st, rcept_no) ==
    [st EXCEPT !.processed = @ \cup {rcept_no},
               !.skip_count = @ + 1]

\* record_failure that makes the identifier retryable again
record_failure_reopens(st, rcept_no, mf) ==
    LET n == dict_get(st.failed_attempts, rcept_no) + 1
        counted == [st EXCEPT !.failed_attempts = dict_set(@, rcept_no, n),
                              !.error_count = @ + 1,
                              !.processed = @ \ {rcept_no}]
    IN  IF n >= mf
        THEN [counted EXCEPT !.permanently_failed = @ \cup {rcept_no},
                             !.processed = @ \cup {rcept_no},
                             !.failed_attempts = dict_del(@, rcept_no)]
        ELSE counted

\* record_failure that promotes one call late (> for >=)
record_failure_late(st, rcept_no, mf) ==
    LET n == dict_get(st.failed_attempts, rcept_no) + 1
        counted == [st EXCEPT !.failed_attempts = dict_set(@, rcept_no, n),
                              !.error_count = @ + 1]
    IN  IF n > mf
        THEN [counted EXCEPT !.permanently_failed = @ \cup {rcept_no},
                             !.processed = @ \cup {rcept_no},
                             !.failed_attempts = dict_del(@, rcept_no)]
        ELSE counted

\* record_failure that promotes without adding to processed
record_failure_unprocessed(st, rcept_no, mf) ==
    LET n == dict_get(st.failed_attempts, rcept_no) + 1
        counted == [st EXCEPT !.failed_attempts = dict_set(@, rcept_no, n),
                              !.error_count = @ + 1]
    IN  IF n >= mf
        THEN [counted EXCEPT !.permanently_failed = @ \cup {rcept_no},
                             !.failed_attempts = dict_del(@, rcept_no)]
        ELSE counted

\* record_failure that counts and never promotes
record_failure_uncapped(st, rcept_no, mf) ==
    [st EXCEPT !.failed_attempts =
                   dict_set(@, rcept_no, dict_get(@, rcept_no) + 1),
               !.error_count = @ + 1]

\* the value record_failure returns
record_failure_ret(st, rcept_no, mf) ==
    dict_get(st.failed_attempts, rcept_no) + 1 >= mf

record_failure(st, rcept_no, mf) ==
    LET n == dict_get(st.failed_attempts, rcept_no) + 1
        counted == [st EXCEPT !.failed_attempts = dict_set(@, rcept_no, n),
                              !.error_count = @ + 1]
    IN  IF n >= mf
        THEN [counted EXCEPT !.permanently_failed = @ \cup {rcept_no},
                             !.processed = @ \cup {rcept_no},
                             !.failed_attempts = dict_del(@, rcept_no)]
        ELSE counted

get_stats(st) ==
    [processed_count          |-> Cardinality(st.processed),
     success_count            |-> st.success_count,
     skip_count               |-> st.skip_count,
     error_count              |-> st.error_count,
     pending_retry_count      |-> Cardinality(DOMAIN st.failed_attempts),
     permanently_failed_count |-> Cardinality(st.permanently_failed)]

(***************************************************************************)
(* Strings.  Python str operations used by the code, on TLA+ strings.      *)
(***************************************************************************)
char_at(s, i) == SubSeq(s, i, i)

startswith(s, prefix) ==
    Len(prefix) <= Len(s) /\ SubSeq(s, 1, Len(prefix)) = prefix

endswith(s, suffix) ==
    Len(suffix) <= Len(s) /\ SubSeq(s, Len(s) - Len(suffix) + 1, Len(s)) = suffix

SafeChars ==
    {"0", "1", "2", "3", "4", "5", "6", "7", "8", "9", ".", "_", "-",
     "a", "b", "c", "d", "e", "f", "g", "h", "i", "j", "k", "l", "m",
     "n", "o", "p", "q", "r", "s", "t", "u", "v", "w", "x", "y", "z",
     "A", "B", "C", "D", "E", "F", "G", "H", "I", "J", "K", "L", "M",
     "N", "O", "P", "Q", "R", "S", "T", "U", "V", "W", "X", "Y", "Z"}

StripChars == {".", "_", "-"}

\* index of the last occurrence of character c in s, 0 when there is none
RECURSIVE rfind(_, _, _)
rfind(s, c, i) ==
    IF i = 0 THEN 0
    ELSE IF char_at(s, i) = c THEN i ELSE rfind(s, c, i - 1)

\* os.path.splitext(os.path.basename(name))[0] for a name without blanks:
\* the part after the last "/", cut at its last "." unless that dot leads it
get_base_name(filename) ==
    LET slash == rfind(filename, "/", Len(filename))
        base  == SubSeq(filename, slash + 1, Len(filename))
        dot   == rfind(base, ".", Len(base))
        \* splitext ignores leading dots
        lead  == CHOOSE k \in 0..Len(base) :
                    /\ \A j \in 1..k : char_at(base, j) = "."
                    /\ (k = Len(base) \/ char_at(base, k + 1) # ".")
    IN  IF dot > lead THEN SubSeq(base, 1, dot - 1) ELSE base

\* _SAFE_NAME_RE.sub('_', n): every run of characters outside
\* [A-Za-z0-9._-] becomes one "_"
RECURSIVE sub_unsafe(_, _, _)
sub_unsafe(s, i, in_run) ==
    IF i > Len(s) THEN ""
    ELSE IF char_at(s, i) \in SafeChars
         THEN char_at(s, i) \o sub_unsafe(s, i + 1, FALSE)
         ELSE (IF in_run THEN "" ELSE "_") \o sub_unsafe(s, i + 1, TRUE)

\* str.strip('._-')
strip_chars(s) ==
    LET keep == {i \in 1..Len(s) : char_at(s, i) \notin StripChars}
    IN  IF keep = {} THEN ""
        ELSE SubSeq(s, CHOOSE i \in keep : \A j \in keep : i <= j,
                       CHOOSE i \in keep : \A j \in keep : i >= j)

safe_ascii_name(name) ==
    LET n == strip_chars(sub_unsafe(name, 1, FALSE))
    IN  IF n = "" THEN "document" ELSE n

(***************************************************************************)
(* Object store (services/storage_client.py).  The bucket is the set of    *)
(* the names of its objects.  stat_object looks one name up; an error      *)
(* other than NoSuchKey/NoSuchObject is raised to the caller and is chosen *)
(* by the environment (env.exists_error below).                            *)
(***************************************************************************)
object_exists(bkt, object_name) == object_name \in bkt

\* put_object that reports success and stores nothing
upload_document_lost(bkt, object_name, ok) == bkt

\* put_object on success; on S3Error nothing is stored and False is returned
upload_document(bkt, object_name, ok) ==
    IF ok THEN bkt \cup {object_name} ELSE bkt

(***************************************************************************)
(* Document download (services/dart_api_client.py:152-202).  resp is the   *)
(* HTTP exchange: a ZIP body, the XML error envelope with a status, a body *)
(* that is neither, or a transport error.                                  *)
(***************************************************************************)
NO_RETRY_CODES == {"013", "014", "100"}

\* the critical codes without the expired key
CRITICAL_CODES_two == {"010", "011"}

CRITICAL_CODES == {"010", "011", "901"}

DocStatuses == {"010", "011", "901", "013", "014", "100", "800"}

Kinds == {"html", "xml", "bin", "zip"}

Sizes == {MinFileSize - 1, MinFileSize}

\* The archive the provider holds for a filing normalizes to one kind, the
\* same at every download; its length may differ between downloads.
DocumentKind(rcept_no) ==
    IF rcept_no = "20241125000001" THEN "xml" ELSE "html"

\* what the archive normalizes to: kind "zip" is an archive that cannot be
\* opened, is empty or breaks a safety limit
NoBody == [kind |-> "bin", size |-> 0]

DocResponses ==
    [http : {"zip"}, status : {""}, body : [kind : Kinds, size : Sizes]]
    \cup [http : {"error_xml"}, status : DocStatuses, body : {NoBody}]
    \cup [http : {"garbage", "transport_error"}, status : {""}, body : {NoBody}]

fetch_document_content(resp) ==
    IF resp.http = "zip" THEN [tag |-> "bytes", body |-> resp.body]
    ELSE IF resp.http = "error_xml" /\ resp.status \in NO_RETRY_CODES
         THEN [tag |-> "none", body |-> NoBody]
    ELSE IF resp.http = "error_xml" /\ resp.status \in CRITICAL_CODES
         THEN [tag |-> "raise", body |-> NoBody]
    ELSE [tag |-> "none", body |-> NoBody]

(***************************************************************************)
(* normalize_payload (services/content_normalizer.py:455-518) as far as    *)
(* the pipeline reads its result: content type, length and file name.      *)
(***************************************************************************)
normalize_payload(object_key, body) ==
    LET base_name == safe_ascii_name(get_base_name(object_key))
    IN  CASE body.kind = "html" ->
                [content_type |-> "text/html; charset=UTF-8",
                 size |-> body.size, final_name |-> base_name \o ".html"]
          [] body.kind = "xml" ->
                [content_type |-> "application/xml; charset=UTF-8",
                 size |-> body.size, final_name |-> base_name \o ".xml"]
          [] body.kind = "bin" ->
                [content_type |-> "application/octet-stream",
                 size |-> body.size, final_name |-> base_name]
          [] OTHER ->
                [content_type |-> "application/octet-stream",
                 size |-> body.size, final_name |-> base_name \o ".zip"]

(***************************************************************************)
(* FailureRecorder.record (models/failure_recorder.py:28-45): one file per *)
(* rcept_no, overwritten by each later record (log_dir is always set by    *)
(* config.py:323-326).  No code reads a file back: the directory is kept   *)
(* as the set of its file names, and the reason written by a call is kept  *)
(* in that call's trace.                                                   *)
(***************************************************************************)
record(flog, doc, reason) == flog \cup {doc.rcept_no \o ".json"}

TooSmallReason == "Processed file too small"

EnqueueReason  == "Failed to enqueue Celery task"

DownloadReason == "Failed to download document from DART API."

UploadReason   == "Failed to upload to storage."

DartErrorReason == "DART API Error"

(***************************************************************************)
(* process_document (main.py:163-280).  env holds what the collaborators   *)
(* answer during this call:                                                *)
(*   exists_error - stat_object fails with an error other than not-found   *)
(*   resp         - the document API's HTTP exchange                       *)
(*   upload_ok    - put_object succeeds                                    *)
(*   enqueue_ok   - send_task succeeds                                     *)
(* The result holds the new ProcessingState, bucket, queue and failure     *)
(* files, whether the call raised, and a trace of the calls it made.       *)
(***************************************************************************)
\* A call the pipeline does not reach has no answer: its field is held at the
\* first value, so that each course of one call is listed once.
NoResponse == [http |-> "transport_error", status |-> "", body |-> NoBody]

Envs(doc) ==
    {env \in [exists_error : BOOLEAN, resp : DocResponses,
              upload_ok : BOOLEAN, enqueue_ok : BOOLEAN] :
        /\ env.resp.http = "zip"
              => env.resp.body.kind = DocumentKind(doc.rcept_no)
        /\ env.exists_error => env.resp = NoResponse
        /\ (env.resp.http # "zip" \/ env.resp.body.size < MinFileSize)
              => env.upload_ok
        /\ ~env.upload_ok => env.enqueue_ok}

NoTrace ==
    [rcept_no       |-> "",
     outcome        |-> "none",
     exists_checked |-> FALSE,     \* store.object_exists was called
     exists_key     |-> "",
     exists_ret     |-> FALSE,
     fetched        |-> FALSE,     \* api.fetch_document_content was called
     fetch_ret      |-> "",        \* how it ended: "bytes", "none" or "raise"
     size           |-> -1,        \* len(normalized_body), -1 before that
     upload_called  |-> FALSE,
     uploaded       |-> "",        \* object_name of a successful upload
     send_called    |-> FALSE,
     sent           |-> FALSE,     \* send_task returned
     recorded       |-> "",        \* reason given to failure_recorder.record
     rf_called      |-> FALSE,     \* state.record_failure was called
     rf_ret         |-> FALSE]

wildcard_key(doc) == doc.rcept_dt \o "/" \o doc.rcept_no \o "*"

too_small_inclusive(file_size) == file_size <= MinFileSize

\* main.py:218
too_small(file_size) == file_size < MinFileSize

\* main.py:233-247
message(doc, object_name, content_type, file_size, polling_date) ==
    [corp_code    |-> doc.corp_code,
     corp_name    |-> doc.corp_name,
     stock_code   |-> doc.stock_code,
     corp_cls     |-> doc.corp_cls,
     report_nm    |-> doc.report_nm,
     rcept_no     |-> doc.rcept_no,
     flr_nm       |-> doc.flr_nm,
     rcept_dt     |-> doc.rcept_dt,
     rm           |-> doc.rm,
     object_key   |-> object_name,
     content_type |-> content_type,
     file_size    |-> file_size,
     polling_date |-> polling_date]

\* the except branch without its record_failure call
item_failed_uncounted(st, bkt, q, flog, doc, mf, reason, tr) ==
    [state       |-> st,
     bucket      |-> bkt,
     queue       |-> q,
     failure_log |-> record(flog, doc, reason),
     raised      |-> FALSE,
     trace       |-> [tr EXCEPT !.outcome = "failed", !.recorded = reason]]

\* main.py:265-280, the except branch of process_document
item_failed(st, bkt, q, flog, doc, mf, reason, tr) ==
    [state       |-> record_failure(st, doc.rcept_no, mf),
     bucket      |-> bkt,
     queue       |-> q,
     failure_log |-> record(flog, doc, reason),
     raised      |-> FALSE,
     trace       |-> [tr EXCEPT
                        !.outcome = IF record_failure_ret(st, doc.rcept_no, mf)
                                    THEN "perm_failed" ELSE "failed",
                        !.recorded = reason,
                        !.rf_called = TRUE,
                        !.rf_ret = record_failure_ret(st, doc.rcept_no, mf)]]

\* send_task raised, handled as a failure of the item
enqueue_failed_counts(st, bkt, q, flog, doc, mf, tr) ==
    item_failed(st, bkt, q, flog, doc, mf, EnqueueReason, tr)

\* main.py:255-260, send_task raised: the failure is recorded and the item
\* is marked processed all the same
enqueue_failed(st, bkt, q, flog, doc, mf, tr) ==
    [state       |-> mark_processed(st, doc.rcept_no),
     bucket      |-> bkt,
     queue       |-> q,
     failure_log |-> record(flog, doc, EnqueueReason),
     raised      |-> FALSE,
     trace       |-> [tr EXCEPT !.outcome = "enqueue_failed",
                                !.recorded = EnqueueReason]]

process_document(st, bkt, q, flog, doc, polling_date, mf, env) ==
    LET no  == doc.rcept_no
        tr0 == [NoTrace EXCEPT !.rcept_no = no]
        key == wildcard_key(doc)
        tr1 == [tr0 EXCEPT !.exists_checked = TRUE, !.exists_key = key,
                           !.exists_ret = object_exists(bkt, key)]
        got == fetch_document_content(env.resp)
        tr2 == [tr1 EXCEPT !.fetched = TRUE, !.fetch_ret = got.tag]
        np  == normalize_payload(no, got.body)
        tr3 == [tr2 EXCEPT !.size = np.size]
        object_name == doc.rcept_dt \o "/" \o np.final_name
        tr4 == [tr3 EXCEPT !.upload_called = TRUE]
        tr5 == [tr4 EXCEPT !.uploaded = object_name, !.send_called = TRUE]
        msg == message(doc, object_name, np.content_type, np.size, polling_date)
        same == [state |-> st, bucket |-> bkt, queue |-> q,
                 failure_log |-> flog, raised |-> FALSE, trace |-> tr0]
    IN  IF is_processed(st, no)
        THEN [same EXCEPT !.trace.outcome = "already"]
        ELSE IF env.exists_error
        THEN [same EXCEPT !.raised = TRUE,
                          !.trace = [tr0 EXCEPT !.exists_checked = TRUE,
                                                !.exists_key = key,
                                                !.outcome = "exists_raised"]]
        ELSE IF object_exists(bkt, key)
        THEN [same EXCEPT !.state = mark_skipped(st, no),
                          !.trace = [tr1 EXCEPT !.outcome = "exists_skip"]]
        ELSE IF got.tag = "raise"
        THEN item_failed(st, bkt, q, flog, doc, mf, DartErrorReason, tr2)
        ELSE IF got.tag = "none"
        THEN item_failed(st, bkt, q, flog, doc, mf, DownloadReason, tr2)
        ELSE IF too_small(np.size)
        THEN [same EXCEPT !.state = mark_skipped(st, no),
                          !.failure_log = record(flog, doc, TooSmallReason),
                          !.trace = [tr3 EXCEPT !.outcome = "too_small",
                                                !.recorded = TooSmallReason]]
        ELSE IF ~env.upload_ok
        THEN item_failed(st, upload_document(bkt, object_name, FALSE), q, flog,
                         doc, mf, UploadReason, tr4)
        ELSE IF env.enqueue_ok
        THEN [same EXCEPT !.state = mark_processed(st, no),
                          !.bucket = upload_document(bkt, object_name, TRUE),
                          !.queue = Append(q, msg),
                          !.trace = [tr5 EXCEPT !.outcome = "success",
                                                !.sent = TRUE]]
        ELSE enqueue_failed(st, upload_document(bkt, object_name, TRUE), q,
                            flog, doc, mf, tr5)

(***************************************************************************)
(* List API (services/dart_api_client.py:95-150) as polling_loop reads it: *)
(* None on a network/JSON failure, else status, total_page and list.  An   *)
(* item of the list is a disclosure or an entry Disclosure.from_dict       *)
(* rejects with TypeError; total_page may be text int() rejects.           *)
(***************************************************************************)
BadItem == [corp_name |-> "Nameless", rcept_dt |-> "20241125"]

RawItems == {RawItem(no) : no \in RceptNos} \cup {BadItem}

\* the pages the model lists: empty, or one item
RawLists == {<< >>} \cup {<<item>> : item \in RawItems}

ErrorStatuses == {"013", "020", "800", "010", "011", "901", "900"}

ListResponses ==
    [kind : {"json"}, status : {"000"}, total_page : 1..MaxPages,
     list : RawLists]
    \cup [kind : {"json"}, status : ErrorStatuses, total_page : {1},
          list : {<< >>}]
    \cup [kind : {"bad_total_page"}, status : {"000"}, total_page : {1},
          list : RawLists]
    \cup [kind : {"none"}, status : {""}, total_page : {1}, list : {<< >>}]

\* main.py:347-351: the items from_dict accepts, in order
parsed(raw_list) ==
    LET accepted == SelectSeq(raw_list, LAMBDA item : ~from_dict_raises(item))
    IN  [i \in 1..Len(accepted) |-> from_dict(accepted[i])]

\* config.polling.target_date, the date polled
yyyymmdd == "20241125"

interval == DefaultInterval

NoLife ==
    [fetches |-> [no \in RceptNos |-> 0],
     uploads |-> [no \in RceptNos |-> 0],
     sends   |-> [no \in RceptNos |-> 0],
     unsent  |-> {}]

count(lf, tr) ==
    [fetches |-> [lf.fetches EXCEPT
                    ![tr.rcept_no] = @ + (IF tr.fetched THEN 1 ELSE 0)],
     uploads |-> [lf.uploads EXCEPT
                    ![tr.rcept_no] = @ + (IF tr.uploaded # "" THEN 1 ELSE 0)],
     sends   |-> [lf.sends EXCEPT
                    ![tr.rcept_no] = @ + (IF tr.sent THEN 1 ELSE 0)],
     unsent  |-> lf.unsent \cup (IF tr.send_called /\ ~tr.sent
                                 THEN {tr.rcept_no} ELSE {})]

NoCall == [fn |-> "", arg |-> << >>, ret |-> << >>]

(***************************************************************************)
(* MockDartApiClient (services/mock_dart_client.py).  The object holds the *)
(* set of the receipt numbers it has generated.  The model also keeps what *)
(* the last call was and returned, and how often each value returned so    *)
(* far was returned, by all calls together.                                *)
(***************************************************************************)
Dates == {"20241125", "20241126"}

\* the callers ask for the date of the day (main.py:313-314): a date asked
\* for is never earlier than the date asked for before
day_of(date) == IF date = "" THEN 0 ELSE IF date = "20241125" THEN 1 ELSE 2

\* random.randint(100000, 999999), cut to MaxSeqs values
Seqs == SeqLow..(SeqLow + MaxSeqs - 1)

\* f"{date_str}{seq}"
format_rcept_no(date_str, seq) == date_str \o ToString(seq)

MockDartApiClient ==
    [_generated_rcept_nos |-> {},
     fn       |-> "",
     date     |-> "",
     ret      |-> << >>,
     returned |-> << >>]

(***************************************************************************)
(* The producer process (main.py:434-572) and its HealthCheckServer        *)
(* (health.py:398-501): the position of main(), of the polling thread and  *)
(* of the server thread, the fields of the server and of its four          *)
(* checkers, and the answer to the request the server thread is handling.  *)
(*                                                                         *)
(* main:    "start", "verify", "clients", "polling", "join", "stop",       *)
(*          "stats", "returned"                                            *)
(* polling: "none", "started" (Thread.start was called), "running" (in     *)
(*          polling_loop), "returned"                                      *)
(* thread:  "none", "serving" (blocked in handle_request), "handling",     *)
(*          "exited"                                                       *)
(***************************************************************************)
NoAnswer == [path |-> "", code |-> 0, status |-> "", checks |-> << >>]

\* HealthCheckServer.__init__ followed by start() (health.py:406-444)
HealthCheckServer ==
    [_running              |-> TRUE,
     shutdown_request      |-> FALSE,    \* BaseServer.__shutdown_request
     is_shut_down          |-> FALSE,    \* BaseServer.__is_shut_down
     thread                |-> "serving",
     _connected            |-> FALSE,    \* RabbitMQHealthChecker
     _client               |-> PyNone,   \* MinIOHealthChecker
     _last_success         |-> PyNone,   \* DartApiHealthChecker
     _consecutive_failures |-> 0,        \* DartApiHealthChecker
     _is_running           |-> FALSE,    \* PollingHealthChecker
     response              |-> NoAnswer]

\* health_server = None: no server object and no server thread
NoServer == [thread |-> "none"]

NoProcess ==
    [main    |-> "start",
     exit    |-> PyNone,   \* the value main() returned
     server  |-> NoServer, \* main()'s health_server
     polling |-> "none",
     signal  |-> FALSE]    \* GracefulShutdown._shutdown_event

Init ==
    /\ state = ProcessingState
    /\ max_fail \in 1..MaxMaxFail
    /\ log = << >>
    /\ pc = "loop"
    /\ shutdown = FALSE
    /\ page_no = 1
    /\ total_pages = 1
    /\ all_disclosures = << >>
    /\ new_disclosures = << >>
    /\ idx = 1
    /\ waiting = 0
    /\ bucket = {}
    /\ queue = << >>
    /\ failure_log = {}
    /\ last = NoTrace
    /\ life = NoLife
    /\ cycles = 0
    /\ polled = << >>
    /\ call = NoCall
    /\ mock = MockDartApiClient
    /\ health = NoProcess

(***************************************************************************)
(* StateSpec: calls on ProcessingState, in any order.                      *)
(***************************************************************************)
CallMarkProcessed ==
    /\ Len(log) < MaxCalls
    /\ \E no \in RceptNos :
        /\ state' = mark_processed(state, no)
        /\ log' = Append(log, [op |-> "mark_processed", rcept_no |-> no,
                               ret |-> FALSE])
    /\ UNCHANGED <<max_fail, loopVars, worldVars, obsVars, polled, callVars>>

CallMarkSkipped ==
    /\ Len(log) < MaxCalls
    /\ \E no \in RceptNos :
        /\ state' = mark_skipped(state, no)
        /\ log' = Append(log, [op |-> "mark_skipped", rcept_no |-> no,
                               ret |-> FALSE])
    /\ UNCHANGED <<max_fail, loopVars, worldVars, obsVars, polled, callVars>>

CallRecordFailure ==
    /\ Len(log) < MaxCalls
    /\ \E no \in RceptNos :
        /\ state' = record_failure(state, no, max_fail)
        /\ log' = Append(log, [op |-> "record_failure", rcept_no |-> no,
                               ret |-> record_failure_ret(state, no, max_fail)])
    /\ UNCHANGED <<max_fail, loopVars, worldVars, obsVars, polled, callVars>>

StateNext == CallMarkProcessed \/ CallMarkSkipped \/ CallRecordFailure

StateSpec == Init /\ [][StateNext]_vars

(***************************************************************************)
(* Spec: polling_loop (main.py:287-431) and its environment.               *)
(*                                                                         *)
(* pc: "loop"    the test of `while not shutdown.is_shutting_down()`       *)
(*     "page"    the test of `while page_no <= total_pages`                *)
(*     "backoff" blocked in shutdown.wait() after a 020/800/010/011 page   *)
(*     "filter"  building new_disclosures                                  *)
(*     "items"   the for loop over new_disclosures                         *)
(*     "wait"    the finally clause, blocked in shutdown.wait(interval)    *)
(*     "done"    polling_loop has returned                                 *)
(***************************************************************************)

\* main.py:310, the loop test fails
LoopExit ==
    /\ pc = "loop"
    /\ shutdown
    /\ pc' = "done"
    /\ UNCHANGED <<stateVars, shutdown, page_no, total_pages, all_disclosures,
                   new_disclosures, idx, waiting, worldVars, obsVars,
                   cycles, polled, callVars>>

\* a cycle started without the test of the shutdown flag
StartCycle_unchecked ==
    /\ pc = "loop"
    /\ cycles < MaxCycles
    /\ cycles' = cycles + 1
    /\ all_disclosures' = << >>
    /\ page_no' = 1
    /\ total_pages' = 1
    /\ pc' = "page"
    /\ polled' = << >>
    /\ UNCHANGED callVars
    /\ UNCHANGED <<stateVars, shutdown, new_disclosures, idx, waiting,
                   worldVars, obsVars>>

\* main.py:310-321
StartCycle ==
    /\ pc = "loop"
    /\ ~shutdown
    /\ cycles < MaxCycles
    /\ cycles' = cycles + 1
    /\ all_disclosures' = << >>
    /\ page_no' = 1
    /\ total_pages' = 1
    /\ pc' = "page"
    /\ polled' = << >>
    /\ UNCHANGED callVars
    /\ UNCHANGED <<stateVars, shutdown, new_disclosures, idx, waiting,
                   worldVars, obsVars>>

\* main.py:324-326, the page loop ends by its test or by the shutdown check
PagingEnds ==
    /\ pc = "page"
    /\ page_no > total_pages \/ shutdown
    /\ pc' = "filter"
    /\ UNCHANGED <<stateVars, shutdown, page_no, total_pages, all_disclosures,
                   new_disclosures, idx, waiting, worldVars, obsVars,
                   cycles, polled, callVars>>

\* total_pages read from every page
next_total_pages_any(response, page, total) == response.total_page

\* main.py:338-339, total_pages is read from the answer to page 1
next_total_pages(response, page, total) ==
    IF page = 1 THEN response.total_page ELSE total

\* main.py:331-377, what the page loop does with one answer of the list API
fetch_page(response) ==
    /\ LET keep == /\ UNCHANGED <<page_no, total_pages, all_disclosures>>
                   /\ waiting' = 0
       IN  CASE response.kind = "none" ->
                   keep /\ pc' = "filter"
             [] response.kind = "bad_total_page" /\ page_no = 1 ->
                   \* int() raises ValueError: caught at main.py:421
                   /\ UNCHANGED <<page_no, total_pages, all_disclosures>>
                   /\ pc' = "wait"
                   /\ waiting' = interval
             [] response.status = "000" ->
                   /\ total_pages' = next_total_pages(response, page_no,
                                                      total_pages)
                   /\ waiting' = 0
                   /\ IF response.list = << >> /\ page_no > 1
                      THEN /\ pc' = "filter"
                           /\ UNCHANGED <<page_no, all_disclosures>>
                      ELSE /\ all_disclosures' =
                                   all_disclosures \o parsed(response.list)
                           /\ page_no' = page_no + 1
                           /\ pc' = "page"
             [] response.kind = "json" /\ response.status = "013" ->
                   keep /\ pc' = "filter"
             [] response.kind = "json" /\ response.status = "020" ->
                   /\ UNCHANGED <<page_no, total_pages, all_disclosures>>
                   /\ waiting' = RateLimitWait
                   /\ pc' = "backoff"
             [] response.kind = "json" /\ response.status = "800" ->
                   /\ UNCHANGED <<page_no, total_pages, all_disclosures>>
                   /\ waiting' = MaintenanceWait
                   /\ pc' = "backoff"
             [] response.kind = "json" /\ response.status \in {"010", "011"} ->
                   /\ UNCHANGED <<page_no, total_pages, all_disclosures>>
                   /\ waiting' = interval
                   /\ pc' = "backoff"
             [] OTHER ->
                   keep /\ pc' = "filter"
    /\ UNCHANGED <<stateVars, shutdown, new_disclosures, idx,
                   worldVars, obsVars, cycles>>

\* main.py:332-377 and 422, the level of the log line written by the branch
\* that handles the answer
page_log_level(response, page) ==
    CASE response.kind = "none" -> "error"
      [] response.kind = "bad_total_page" /\ page = 1 -> "error"
      [] response.status = "000" -> "info"
      [] response.status = "013" -> "info"
      [] response.status \in {"020", "800"} -> "warning"
      [] response.status \in {"010", "011"} -> "critical"
      [] OTHER -> "error"

\* main.py:324-329, one list request of the page loop
FetchPage ==
    /\ pc = "page"
    /\ page_no <= total_pages
    /\ ~shutdown
    /\ \E response \in ListResponses : fetch_page(response)
    /\ UNCHANGED <<polled, callVars>>

\* FetchPage, with the request written down in polled
PollPage ==
    /\ pc = "page"
    /\ page_no <= total_pages
    /\ ~shutdown
    /\ \E response \in ListResponses :
        /\ fetch_page(response)
        /\ polled' = Append(polled, [page_no |-> page_no,
                                     kind    |-> response.kind,
                                     status  |-> response.status,
                                     total_page |-> response.total_page,
                                     empty   |-> response.list = << >>,
                                     level   |-> page_log_level(response,
                                                                page_no)])
    /\ UNCHANGED callVars

\* the page loop going on after a backoff wait
BackoffEnds_continue ==
    /\ pc = "backoff"
    /\ waiting' = 0
    /\ pc' = "page"
    /\ UNCHANGED <<stateVars, shutdown, page_no, total_pages, all_disclosures,
                   new_disclosures, idx, worldVars, obsVars, cycles, polled, callVars>>

\* main.py:361-372, shutdown.wait() returns (timeout or signal), then break
BackoffEnds ==
    /\ pc = "backoff"
    /\ waiting' = 0
    /\ pc' = "filter"
    /\ UNCHANGED <<stateVars, shutdown, page_no, total_pages, all_disclosures,
                   new_disclosures, idx, worldVars, obsVars, cycles, polled, callVars>>

\* Locals that no later statement of the cycle reads are put back to the
\* value the next cycle gives them (main.py:319-321), so that states which
\* differ only in dead values coincide.
DeadPaging ==
    /\ all_disclosures' = << >>
    /\ page_no' = 1
    /\ total_pages' = 1

DeadItems ==
    /\ new_disclosures' = << >>
    /\ idx' = 1

\* the records collected by the page loop are dropped
FilterNew_drops ==
    /\ pc = "filter"
    /\ new_disclosures' = << >>
    /\ idx' = 1
    /\ pc' = "items"
    /\ DeadPaging
    /\ UNCHANGED <<stateVars, shutdown, waiting, worldVars, obsVars,
                   cycles, polled, callVars>>

\* main.py:384-390
FilterNew ==
    /\ pc = "filter"
    /\ new_disclosures' =
         SelectSeq(all_disclosures,
                   LAMBDA doc : ~is_processed(state, doc.rcept_no))
    /\ idx' = 1
    /\ pc' = "items"
    /\ DeadPaging
    /\ UNCHANGED <<stateVars, shutdown, waiting, worldVars, obsVars,
                   cycles, polled, callVars>>

\* main.py:392-407, one iteration of the for loop: process_document for the
\* next record; an exception leaving it is caught at main.py:421
ProcessItem ==
    /\ pc = "items"
    /\ idx <= Len(new_disclosures)
    /\ ~shutdown
    /\ \E env \in Envs(new_disclosures[idx]) :
        LET r == process_document(state, bucket, queue, failure_log,
                                  new_disclosures[idx], yyyymmdd, max_fail, env)
        IN  /\ state' = r.state
            /\ bucket' = r.bucket
            /\ queue' = r.queue
            /\ failure_log' = r.failure_log
            /\ last' = r.trace
            /\ life' = count(life, r.trace)
            /\ IF r.raised
               THEN pc' = "wait" /\ waiting' = interval /\ DeadItems
               ELSE /\ pc' = "items"
                    /\ waiting' = 0
                    /\ idx' = idx + 1
                    /\ UNCHANGED new_disclosures
    /\ UNCHANGED <<max_fail, log, shutdown, page_no, total_pages,
                   all_disclosures, cycles, polled, callVars>>

\* the for loop ends and the next cycle starts with no wait
ItemsEnd_nowait ==
    /\ pc = "items"
    /\ idx > Len(new_disclosures) \/ shutdown
    /\ pc' = "loop"
    /\ waiting' = 0
    /\ DeadItems
    /\ last' = NoTrace
    /\ UNCHANGED <<stateVars, shutdown, page_no, total_pages, all_disclosures,
                   worldVars, life, cycles, polled, callVars>>

\* main.py:392-394 and 411-427, the for loop ends; stats; the finally clause
ItemsEnd ==
    /\ pc = "items"
    /\ idx > Len(new_disclosures) \/ shutdown
    /\ pc' = "wait"
    /\ waiting' = interval
    /\ DeadItems
    /\ last' = NoTrace
    /\ UNCHANGED <<stateVars, shutdown, page_no, total_pages, all_disclosures,
                   worldVars, life, cycles, polled, callVars>>

\* the inter-cycle wait followed by the loop test whatever wait() returned
WaitEnds_no_break ==
    /\ pc = "wait"
    /\ waiting' = 0
    /\ pc' = "loop"
    /\ last' = NoTrace
    /\ UNCHANGED <<stateVars, shutdown, page_no, total_pages, all_disclosures,
                   new_disclosures, idx, worldVars, life, cycles, polled, callVars>>

\* main.py:426-427, shutdown.wait(interval) returns
WaitEnds ==
    /\ pc = "wait"
    /\ waiting' = 0
    /\ pc' = IF shutdown THEN "done" ELSE "loop"
    /\ last' = NoTrace
    /\ UNCHANGED <<stateVars, shutdown, page_no, total_pages, all_disclosures,
                   new_disclosures, idx, worldVars, life, cycles, polled, callVars>>

\* main.py:142-144, SIGINT/SIGTERM
Signal ==
    /\ ~shutdown
    /\ shutdown' = TRUE
    /\ UNCHANGED <<stateVars, pc, page_no, total_pages, all_disclosures,
                   new_disclosures, idx, waiting, worldVars, obsVars,
                   cycles, polled, callVars>>

\* main.py:526-551, a new process: fresh ProcessingState, same bucket, queue
\* and failure files
Restart ==
    /\ state' = ProcessingState
    /\ pc' = "loop"
    /\ shutdown' = FALSE
    /\ page_no' = 1
    /\ total_pages' = 1
    /\ all_disclosures' = << >>
    /\ new_disclosures' = << >>
    /\ idx' = 1
    /\ waiting' = 0
    /\ last' = NoTrace
    /\ life' = NoLife
    /\ polled' = << >>
    /\ UNCHANGED callVars
    /\ UNCHANGED <<max_fail, log, cycles, worldVars>>

Next ==
    \/ LoopExit
    \/ StartCycle
    \/ PagingEnds
    \/ FetchPage
    \/ BackoffEnds
    \/ FilterNew
    \/ ProcessItem
    \/ ItemsEnd
    \/ WaitEnds
    \/ Signal
    \/ Restart

Spec == Init /\ [][Next]_vars

(***************************************************************************)
(* PollSpec: one process, from its start to the end of polling_loop, with  *)
(* every list request written down.  What the page loop and the waits do   *)
(* does not depend on max_fail, which is held at 1 here (config.py:153).   *)
(***************************************************************************)
PollInit == Init /\ max_fail = 1

PollNext ==
    \/ LoopExit
    \/ StartCycle
    \/ PagingEnds
    \/ PollPage
    \/ BackoffEnds
    \/ FilterNew
    \/ ProcessItem
    \/ ItemsEnd
    \/ WaitEnds
    \/ Signal

PollSpec == PollInit /\ [][PollNext]_vars

\* The polling thread keeps running: the loop tests are made, Event.wait
\* returns on its timeout or when the event is set (main.py:149-156), and
\* every list request returns (the session has a timeout,
\* dart_api_client.py:141).
FairPollSpec ==
    /\ PollSpec
    /\ WF_vars(LoopExit)
    /\ WF_vars(PagingEnds)
    /\ WF_vars(PollPage)
    /\ WF_vars(BackoffEnds)
    /\ WF_vars(FilterNew)
    /\ WF_vars(ItemsEnd)
    /\ WF_vars(WaitEnds)

(***************************************************************************)
(* Properties of ProcessingState, checked under StateSpec.                 *)
(***************************************************************************)

\* the calls of the log made on rcept_no
calls_on(no) == SelectSeq(log, LAMBDA c : c.rcept_no = no)

\* rcept_no has seen record_failure calls only
only_failures(no) == \A i \in 1..Len(calls_on(no)) :
                        calls_on(no)[i].op = "record_failure"

\* C5: once is_processed(id) is true it stays true, and the sets processed
\* and permanently_failed never lose an element, whatever call is made.
C5_DedupMonotonic ==
    [][/\ \A no \in RceptNos :
            is_processed(state, no) => is_processed(state', no)
       /\ state.processed \subseteq state'.processed
       /\ state.permanently_failed \subseteq state'.permanently_failed]_vars

\* a record_failure call was made on an identifier marked processed before
C5_Witness ==
    /\ Len(log) >= 2
    /\ log[1].op = "mark_processed"
    /\ log[2].op = "record_failure"
    /\ log[2].rcept_no = log[1].rcept_no
    /\ is_processed(state, log[1].rcept_no)

\* C6: on a fresh identifier the first max_fail-1 record_failure calls
\* return false and leave it unprocessed with its counter at the number of
\* calls; the max_fail-th returns true, puts it in permanently_failed and
\* processed and removes the counter.
C6_PromotionBoundary ==
    \A no \in RceptNos :
        LET k == Len(calls_on(no))
        IN  (only_failures(no) /\ k >= 1 /\ k <= max_fail) =>
              /\ \A i \in 1..k : calls_on(no)[i].ret = (i = max_fail)
              /\ k < max_fail =>
                    /\ ~is_processed(state, no)
                    /\ no \in DOMAIN state.failed_attempts
                    /\ state.failed_attempts[no] = k
              /\ k = max_fail =>
                    /\ no \in state.permanently_failed
                    /\ no \in state.processed
                    /\ no \notin DOMAIN state.failed_attempts

\* an identifier promoted by its max_fail-th call, after calls that were not
C6_Witness ==
    \E no \in RceptNos :
        /\ max_fail >= 2
        /\ only_failures(no)
        /\ Len(calls_on(no)) = max_fail
        /\ no \in state.permanently_failed

\* C7: permanently_failed is a subset of processed in every reachable state.
C7_PermanentSubsetProcessed ==
    state.permanently_failed \subseteq state.processed

C7_Witness ==
    /\ state.permanently_failed # {}
    /\ \E i \in 1..Len(log) : log[i].op = "record_failure" /\ log[i].ret

\* C8: no identifier is at once a key of failed_attempts and a member of
\* permanently_failed, record_failure calls on a permanently failed
\* identifier included.
C8_CounterExcludesPermanent ==
    \A no \in RceptNos :
        ~(no \in DOMAIN state.failed_attempts
          /\ no \in state.permanently_failed)

(***************************************************************************)
(* Properties of the pipeline, checked under Spec.                         *)
(***************************************************************************)

\* this step is the process_document call of the for loop, made for rcept_no
ItemStep(no) ==
    /\ pc = "items"
    /\ idx <= Len(new_disclosures)
    /\ ~shutdown
    /\ new_disclosures[idx].rcept_no = no
    /\ last'.rcept_no = no
    /\ (pc' = "wait" \/ idx' = idx + 1)

object_prefix(no) == Disclosure(no).rcept_dt \o "/" \o no

\* C1: a record that is fetched, normalized, uploaded and enqueued with
\* success has one object under {rcept_dt}/{finalFilename} and one message
\* naming that key; within one process lifetime no rcept_no is uploaded or
\* enqueued a second time, however often it is listed again.
C1_OneUploadOneMessage ==
    /\ \A no \in RceptNos : life.uploads[no] <= 1 /\ life.sends[no] <= 1
    /\ last.outcome = "success" =>
         /\ last.exists_checked /\ ~last.exists_ret
         /\ \E ext \in {".html", ".xml", ".zip", ""} :
                last.uploaded = object_prefix(last.rcept_no) \o ext
         /\ last.rcept_no = "20241125000001" =>
                last.uploaded = "20241125/20241125000001.xml"
         /\ last.uploaded \in bucket
         /\ queue # << >>
         /\ queue[Len(queue)].rcept_no = last.rcept_no
         /\ queue[Len(queue)].object_key = last.uploaded
         /\ queue[Len(queue)].file_size >= MinFileSize
         /\ life.uploads[last.rcept_no] = 1
         /\ life.sends[last.rcept_no] = 1

\* a record already uploaded and enqueued is listed again and passed over
C1_Witness ==
    /\ last.outcome = "already"
    /\ life.uploads[last.rcept_no] = 1
    /\ life.sends[last.rcept_no] = 1

\* C2: a record whose object was uploaded before a restart under
\* {rcept_dt}/{rcept_no}.html or .xml is found by the existence check of the
\* new process, marked skipped, and not fetched, uploaded or enqueued again.
C2_DurableDedup ==
    [][\A no \in RceptNos :
        (/\ ItemStep(no)
         /\ ~is_processed(state, no)
         /\ last'.outcome # "exists_raised"
         /\ \E ext \in {".html", ".xml"} :
                (object_prefix(no) \o ext) \in bucket)
        => /\ last'.outcome = "exists_skip"
           /\ ~last'.fetched
           /\ no \in state'.processed
           /\ bucket' = bucket
           /\ queue' = queue]_vars

\* what the claim says object_exists answers: a key ending in "*" names
\* every object that starts with the rest of the key
prefix_exists(bkt, key) ==
    IF endswith(key, "*")
    THEN \E name \in bkt : startswith(name, SubSeq(key, 1, Len(key) - 1))
    ELSE key \in bkt

\* C3: for a key ending in "*" object_exists is true iff the bucket holds an
\* object whose name starts with the key minus "*"; for any other key iff
\* that object exists.
C3_PrefixSemantics ==
    [][\A no \in RceptNos :
        (ItemStep(no) /\ last'.exists_checked
            /\ last'.outcome # "exists_raised")
        => last'.exists_ret = prefix_exists(bucket, last'.exists_key)]_vars

\* C4: when the pipeline of one item fails at any stage, the items after
\* it in the batch are still run through the pipeline in the same cycle.
C4_FailureNeverAborts ==
    [][\A no \in RceptNos :
        (/\ ItemStep(no)
         /\ idx < Len(new_disclosures)
         /\ last'.outcome \in {"exists_raised", "failed", "perm_failed",
                               "enqueue_failed"})
        => /\ pc' = "items"
           /\ idx' = idx + 1
           /\ new_disclosures' = new_disclosures]_vars

C12_ProcessedNeverRetried ==
    /\ [](pc = "items" /\ idx = 1 =>
            \A i \in 1..Len(new_disclosures) :
                /\ new_disclosures[i].rcept_no \notin state.processed
                /\ new_disclosures[i].rcept_no \notin state.permanently_failed)
    /\ [][\A no \in RceptNos :
            (/\ ItemStep(no)
             /\ no \in state.processed \/ no \in state.permanently_failed)
            => /\ last'.outcome = "already"
               /\ ~last'.exists_checked
               /\ ~last'.fetched
               /\ ~last'.upload_called
               /\ ~last'.send_called
               /\ last'.recorded = ""
               /\ ~last'.rf_called
               /\ state' = state
               /\ bucket' = bucket
               /\ queue' = queue
               /\ failure_log' = failure_log
               /\ pc' = "items"]_vars

\* a permanently failed identifier comes up again in the batch and is passed
C12_Witness ==
    /\ last.outcome = "already"
    /\ last.rcept_no \in state.permanently_failed

\* C13: a critical key status raised by the document download halts the
\* loop: no further item of the batch is processed, and record_failure is not
\* called for the item.
C13_CriticalDownloadHalts ==
    [][\A no \in RceptNos :
        (ItemStep(no) /\ last'.fetch_ret = "raise")
        => /\ ~last'.rf_called
           /\ state'.failed_attempts = state.failed_attempts
           /\ pc' # "items"]_vars

(***************************************************************************)
(* Properties of the page loop and the waits, checked under PollSpec.      *)
(***************************************************************************)

\* this step is a list request; asked is the request and its answer
PollStep == Len(polled') = Len(polled) + 1

asked == polled'[Len(polled')]

\* this step is a process_document call of the for loop
AnyItemStep == \E no \in RceptNos : ItemStep(no)

\* C14: each of the list statuses 010, 011 and 901 is logged at critical
\* severity and followed by an interruptible wait of one poll interval, with
\* no further page requested in the cycle and the process still running.
C14_CriticalKeyPolicy ==
    [][(PollStep /\ asked.kind = "json"
            /\ asked.status \in {"010", "011", "901"})
        => /\ asked.level = "critical"
           /\ pc' = "backoff"
           /\ waiting' = interval]_vars

\* a list request of this cycle was answered with the status
answered(status) ==
    \E i \in 1..Len(polled) : polled[i].kind = "json" /\ polled[i].status = status

\* C15: in a cycle in which a list page (the first or a later one) returns
\* 020, the loop waits 3600 seconds or until shutdown, and record_failure is
\* called for no identifier during that cycle.
C15_RateLimitNoFailures ==
    [][/\ (PollStep /\ asked.kind = "json" /\ asked.status = "020")
            => pc' = "backoff" /\ waiting' = RateLimitWait
       /\ (answered("020") /\ AnyItemStep)
            => /\ ~last'.rf_called
               /\ state'.error_count = state.error_count
               /\ state'.permanently_failed = state.permanently_failed]_vars

\* C16: a list answer 800 makes the loop wait 300 seconds; after a 020 or
\* 800 answer no further list page is requested in that cycle: the next list
\* request is page 1 of the next cycle, which starts only when the
\* inter-cycle wait has ended too.
C16_BackoffEndsPaging ==
    [][/\ (PollStep /\ asked.kind = "json" /\ asked.status = "800")
            => pc' = "backoff" /\ waiting' = MaintenanceWait
       /\ PollStep => ~answered("020") /\ ~answered("800")
       /\ (PollStep /\ polled = << >>) => asked.page_no = 1
       /\ ((answered("020") \/ answered("800")) /\ pc' # pc) =>
            /\ pc = "backoff" => pc' = "filter"
            /\ pc = "filter" => pc' = "items"
            /\ pc = "items" => pc' = "wait" /\ waiting' = interval
            /\ pc = "wait" => pc' \in {"loop", "done"}
            /\ pc = "loop" => pc' = "done" \/ (pc' = "page" /\ polled' = << >>)]_vars

\* the cycle of an 800 answer on page 2 has come to the inter-cycle wait
C16_Witness ==
    /\ pc = "wait"
    /\ waiting = interval
    /\ Len(polled) = 2
    /\ polled[2].status = "800"

\* page 1 of this cycle was answered with 013
no_data == Len(polled) >= 1 /\ polled[1].kind = "json" /\ polled[1].status = "013"

\* C17: when page 1 returns 013 the cycle requests no further page, runs the
\* pipeline for no record, changes nothing in ProcessingState, raises no
\* error, and the next cycle starts after one interval wait.
C17_NoDataCycle ==
    /\ [](no_data => /\ Len(polled) = 1
                     /\ polled[1].level = "info"
                     /\ all_disclosures = << >>
                     /\ new_disclosures = << >>
                     /\ pc \in {"filter", "items", "wait", "loop", "done"})
    /\ [][/\ (PollStep /\ asked.page_no = 1 /\ asked.kind = "json"
                /\ asked.status = "013")
               => pc' = "filter" /\ waiting' = 0 /\ state' = state
          /\ no_data =>
               /\ ~PollStep
               /\ ~AnyItemStep
               /\ state' = state
               /\ bucket' = bucket /\ queue' = queue
               /\ failure_log' = failure_log
               /\ pc = "filter" /\ pc' # pc => pc' = "items"
               /\ pc = "items" /\ pc' # pc => pc' = "wait" /\ waiting' = interval
               /\ pc = "wait" /\ pc' # pc =>
                     pc' = IF shutdown THEN "done" ELSE "loop"
               /\ pc = "loop" /\ pc' = "page" => polled' = << >>]_vars

\* a cycle with no data is over and the loop is about to start the next one
C17_Witness ==
    /\ no_data
    /\ pc = "loop"
    /\ ~shutdown
    /\ cycles = 1

\* C18: once the shutdown flag is set the loop starts no new cycle, requests
\* no list page and starts no item pipeline; it goes from where it is to the
\* end of polling_loop, and nothing in ProcessingState, the store, the queue
\* or the failure files changes any more.
C18_CooperativeShutdown ==
    [][shutdown =>
        /\ shutdown'
        /\ cycles' = cycles
        /\ ~PollStep
        /\ ~AnyItemStep
        /\ state' = state
        /\ bucket' = bucket /\ queue' = queue /\ failure_log' = failure_log
        /\ pc' # pc =>
            <<pc, pc'>> \in {<<"loop", "done">>, <<"page", "filter">>,
                             <<"backoff", "filter">>, <<"filter", "items">>,
                             <<"items", "wait">>, <<"wait", "done">>}]_vars

\* the signal came while an item ran: the item is done, the next one waits
C18_Witness ==
    /\ shutdown
    /\ pc = "items"
    /\ idx = 2
    /\ idx <= Len(new_disclosures)
    /\ last.rcept_no = new_disclosures[1].rcept_no
    /\ last.outcome = "success"

\* C19: when shutdown is requested during the inter-cycle wait or a backoff
\* wait, the wait ends, and the loop comes to its end without another list
\* request or item.
C19_InterruptibleWaits ==
    /\ (shutdown /\ pc \in {"wait", "backoff"}) ~> (pc = "done")
    /\ [][(shutdown /\ pc \in {"wait", "backoff"} /\ pc' # pc) =>
            /\ waiting' = 0
            /\ pc' = IF pc = "wait" THEN "done" ELSE "filter"
            /\ polled' = polled
            /\ last' = NoTrace]_vars
    /\ [](shutdown /\ pc = "done" => waiting = 0)

\* the signal arrives during the one-hour wait of a rate limit
C19_Witness ==
    /\ shutdown
    /\ pc = "backoff"
    /\ waiting = RateLimitWait

\* the answer is a page of results: status 000, total_page readable when it
\* is read
good_page(a) ==
    a.status = "000" /\ (a.kind = "bad_total_page" => a.page_no > 1)

\* C20: within a cycle the list pages are requested in the order 1, 2, 3,
\* ..., none twice; the page count is the total_page of the answer to page 1
\* and of no later page; the page loop goes on after a page of results that
\* is not an empty list past page 1, and ends when page_no exceeds the
\* count, on 013, on an empty list past page 1 and on any error or missing
\* answer; at most total_page requests are made, and the loop terminates.
C20_Pagination ==
    /\ [](/\ \A i \in 1..Len(polled) : polled[i].page_no = i
          /\ \A i \in 1..(Len(polled) - 1) :
                good_page(polled[i]) /\ ~(polled[i].empty /\ i > 1)
          /\ Len(polled) >= 1 =>
                Len(polled) <= IF good_page(polled[1])
                               THEN polled[1].total_page ELSE 1
          /\ pc = "page" =>
                /\ page_no = Len(polled) + 1
                /\ total_pages = IF polled = << >> THEN 1
                                 ELSE polled[1].total_page
                /\ polled # << >> => good_page(polled[Len(polled)]))
    /\ [][/\ PollStep =>
                /\ pc = "page" /\ page_no <= total_pages
                /\ asked.page_no = page_no
                /\ asked.page_no > 1 => total_pages' = total_pages
                /\ (asked.page_no = 1 /\ good_page(asked)) =>
                        total_pages' = asked.total_page
                /\ pc' = "page" <=>
                        (good_page(asked) /\ ~(asked.empty /\ asked.page_no > 1))
                /\ pc' = "page" => page_no' = page_no + 1
          /\ (pc = "page" /\ pc' # "page" /\ ~PollStep) =>
                (page_no > total_pages \/ shutdown) /\ pc' = "filter"]_vars
    /\ (pc = "page") ~> (pc # "page")

\* both pages of a two-page listing were requested, the second one naming
\* another total_page, and the loop is about to end on its test
C20_Witness ==
    /\ pc = "page"
    /\ Len(polled) = 2
    /\ polled[1].total_page = 2
    /\ polled[2].total_page = 1
    /\ page_no = 3
    /\ Len(all_disclosures) = 2

\* the last list request of this cycle got no answer (network or JSON error)
none_answered == polled # << >> /\ polled[Len(polled)].kind = "none"

ZIP_SIGNATURE == <<80, 75, 3, 4>>

\* first bytes of a body: a ZIP local header, the ZIP end record of an empty
\* archive, a cut signature, "<?xm", "<r>", nothing
Heads == {<<80, 75, 3, 4>>, <<80, 75, 5, 6>>, <<80, 75, 3>>,
          <<60, 63, 120, 109>>, <<60, 114, 62>>, << >>}

StatusTexts == {"", "000", "010", "011", "012", "013", "014", "020", "021",
                "100", "101", "800", "900", "901", "999"}

NotXml == [parses |-> FALSE, status_elem |-> FALSE, status_text |-> "",
           message_elem |-> FALSE]

\* what ET.fromstring and root.find make of a body
XmlReadings ==
    {NotXml}
    \cup [parses : {TRUE}, status_elem : {FALSE}, status_text : {""},
          message_elem : BOOLEAN]
    \cup [parses : {TRUE}, status_elem : {TRUE}, status_text : StatusTexts,
          message_elem : BOOLEAN]

\* session.get and raise_for_status: a body, or a RequestException
RawResponses ==
    [transport : {"error"}, head : {<< >>}, xml : {NotXml}, payload : {NoBody}]
    \cup [transport : {"ok"}, head : {ZIP_SIGNATURE}, xml : {NotXml},
          payload : [kind : Kinds, size : Sizes]]
    \cup {r \in [transport : {"ok"}, head : Heads \ {ZIP_SIGNATURE},
                 xml : XmlReadings, payload : {NoBody}] :
            r.xml.parses => (r.head # << >> /\ r.head[1] = 60)}

\* dart_api_client.py:204-235: << >> for None, else <<status_code, message>>
parse_xml_error(content) ==
    IF content.xml.parses /\ content.xml.status_elem
    THEN <<content.xml.status_text,
           IF content.xml.message_elem THEN "message" ELSE "Unknown error">>
    ELSE << >>

\* dart_api_client.py:172-183 and 200-202: what the exchange comes to
document_response(raw) ==
    IF raw.transport # "ok"
    THEN [http |-> "transport_error", status |-> "", body |-> NoBody]
    ELSE IF startswith(raw.head, ZIP_SIGNATURE)
    THEN [http |-> "zip", status |-> "", body |-> raw.payload]
    ELSE IF parse_xml_error(raw) # << >>
    THEN [http |-> "error_xml", status |-> parse_xml_error(raw)[1],
          body |-> NoBody]
    ELSE [http |-> "garbage", status |-> "", body |-> NoBody]

otherVars == <<state, max_fail, log, pc, shutdown, page_no, total_pages,
               all_disclosures, new_disclosures, idx, waiting, bucket, queue,
               failure_log, last, life, cycles, polled, mock, health>>

\* FetchSpec: one download after another, each with any HTTP exchange
CallFetch ==
    /\ \E no \in RceptNos, raw \in RawResponses :
        call' = [fn  |-> "fetch_document_content",
                 arg |-> [rcept_no |-> no, raw |-> raw],
                 ret |-> fetch_document_content(document_response(raw))]
    /\ UNCHANGED otherVars

FetchSpec == Init /\ [][CallFetch]_vars

\* C22: fetch_document_content returns the payload iff the body starts with
\* the ZIP signature; for another body it raises DartApiError iff the body
\* is the XML error envelope with status 010, 011 or 901; in every other
\* case it returns None and raises nothing.
C22_DownloadClassification ==
    call.fn = "fetch_document_content" =>
        LET raw == call.arg.raw
            zip == /\ raw.transport = "ok"
                   /\ Len(raw.head) >= 4
                   /\ raw.head[1] = 80 /\ raw.head[2] = 75
                   /\ raw.head[3] = 3 /\ raw.head[4] = 4
            critical == /\ raw.transport = "ok"
                        /\ ~zip
                        /\ raw.xml.parses
                        /\ raw.xml.status_elem
                        /\ raw.xml.status_text \in {"010", "011", "901"}
        IN  /\ call.ret.tag = "bytes" <=> zip
            /\ zip => call.ret.body = raw.payload
            /\ call.ret.tag = "raise" <=> critical
            /\ (~zip /\ ~critical) => call.ret.tag = "none"

\* the envelope of an expired key makes the download raise
C22_Witness ==
    /\ call.fn = "fetch_document_content"
    /\ call.arg.raw.xml.status_text = "901"
    /\ call.ret.tag = "raise"

(***************************************************************************)
(* Properties of the queue message, checked under Spec.                    *)
(***************************************************************************)
optional_keys == {"stock_code", "flr_nm", "rm"}

\* C23: in a queue message an optional field that is unset on the record is
\* left out; no message carries such a field with a null value.
C23_UnsetFieldsOmitted ==
    \A i \in 1..Len(queue) :
        \A key \in optional_keys \cap DOMAIN queue[i] :
            queue[i][key] # PyNone

(***************************************************************************)
(* The consumer: consumer/tasks.py.  DisclosureServiceClient.upsert_       *)
(* disclosure is a function of max_retries, the message and the answers    *)
(* the disclosure service gives to the successive PUT requests; the task   *)
(* process_disclosure is a function of the same.  A 3xx answer is left     *)
(* out: the service answers a PUT without redirecting.                     *)
(***************************************************************************)

\* what the queue hands over: the keyword arguments of process_disclosure
Messages ==
    {message(Disclosure(no), "20241125/" \o no \o ".html",
             "text/html; charset=UTF-8", MinFileSize, "20241125") :
        no \in RceptNos}

\* one answer to a PUT: a response with its status (json_ok: the body parses
\* as JSON), or a transport error raised by client.put (httpx.RequestError)
Answers ==
    {[kind |-> "response", status_code |-> 201, json_ok |-> TRUE],
     [kind |-> "response", status_code |-> 200, json_ok |-> FALSE],
     [kind |-> "response", status_code |-> 400, json_ok |-> TRUE],
     [kind |-> "response", status_code |-> 499, json_ok |-> TRUE],
     [kind |-> "response", status_code |-> 500, json_ok |-> TRUE],
     [kind |-> "response", status_code |-> 599, json_ok |-> TRUE],
     [kind |-> "RequestError", status_code |-> 0, json_ok |-> FALSE]}

\* the answers the service would give to MaxRetries + 1 successive requests
AnswerLists == [1..(MaxRetries + 1) -> Answers]

\* tasks.py:101-118: the keys of the payload dict literal
payload_keys ==
    {"rcept_no", "corp_code", "corp_name", "stock_code", "corp_cls",
     "report_nm", "flr_nm", "rcept_dt", "rm", "minio_object_name",
     "content_type", "file_size", "metadata"}

\* the key of the message a payload key is read from
data_key(key) == IF key = "minio_object_name" THEN "object_key" ELSE key

\* dict.get
get(data, key) == IF key \in DOMAIN data THEN data[key] ELSE PyNone

payload_value(rcept_no, data, key) ==
    CASE key = "rcept_no" -> rcept_no
      [] key = "metadata" -> [polling_date |-> get(data, "polling_date"),
                              source       |-> "ingestion_service"]
      [] OTHER            -> get(data, data_key(key))

\* tasks.py:121: "if v is not None" (file_size is an integer when present)
is_not_None(rcept_no, data, key) ==
    CASE key = "metadata"  -> TRUE
      [] key = "file_size" -> "file_size" \in DOMAIN data
      [] OTHER             -> payload_value(rcept_no, data, key) # PyNone

payload(rcept_no, data) ==
    [key \in {k \in payload_keys : is_not_None(rcept_no, data, k)} |->
        payload_value(rcept_no, data, key)]

\* Response.raise_for_status on the modelled statuses
is_success(status_code) == 200 <= status_code /\ status_code < 300

client_error_never(status_code) == FALSE

\* tasks.py:140 and tasks.py:282
client_error(status_code) == 400 <= status_code /\ status_code < 500

range_inclusive(n) == 0..n

\* range(self.max_retries)
range(n) == 0..(n - 1)

NoError == [type |-> "NoneType", status_code |-> 0]

error_of(answer) ==
    IF answer.kind = "RequestError"
    THEN [type |-> "RequestError", status_code |-> 0]
    ELSE [type |-> "HTTPStatusError", status_code |-> answer.status_code]

\* tasks.py:160-162, in half seconds: (2 ** attempt) * 0.5
wait_time(attempt) == 2 ^ attempt

\* The loop of tasks.py:123-164 from iteration attempt on; puts are the
\* answers of the PUT requests made so far, sleeps the waits made so far.
RECURSIVE upsert_loop(_, _, _, _, _, _)
upsert_loop(attempt, max_retries, answers, last_error, puts, sleeps) ==
    IF attempt \notin range(max_retries)
    THEN \* raise last_error; "raise None" is a TypeError
         [outcome |-> "raise",
          error   |-> IF last_error = NoError
                      THEN [type |-> "TypeError", status_code |-> 0]
                      ELSE last_error,
          puts |-> puts, sleeps |-> sleeps]
    ELSE LET answer == answers[attempt + 1]
             made   == Append(puts, answer)
         IN  IF answer.kind = "response" /\ is_success(answer.status_code)
             THEN IF answer.json_ok
                  THEN [outcome |-> "return", error |-> NoError,
                        puts |-> made, sleeps |-> sleeps]
                  ELSE \* response.json() raises a ValueError nothing catches
                       [outcome |-> "raise",
                        error   |-> [type |-> "ValueError", status_code |-> 0],
                        puts |-> made, sleeps |-> sleeps]
             ELSE IF answer.kind = "response" /\ client_error(answer.status_code)
             THEN [outcome |-> "raise", error |-> error_of(answer),
                   puts |-> made, sleeps |-> sleeps]
             ELSE upsert_loop(attempt + 1, max_retries, answers,
                              error_of(answer), made,
                              IF attempt < max_retries - 1
                              THEN Append(sleeps, wait_time(attempt))
                              ELSE sleeps)

upsert_disclosure(max_retries, rcept_no, data, answers) ==
    [json |-> payload(rcept_no, data)] @@
    upsert_loop(0, max_retries, answers, NoError, << >>, << >>)

\* tasks.py:231-320: what the task does with the outcome of the upsert
process_disclosure(max_retries, data, answers) ==
    LET result == upsert_disclosure(max_retries, data.rcept_no, data, answers)
        done(status, error_type, retry) ==
            [status |-> status, error_type |-> error_type, retry |-> retry,
             puts |-> result.puts]
    IN  CASE result.outcome = "return" -> done("success", "", FALSE)
          [] result.outcome = "raise" /\ result.error.type = "HTTPStatusError" ->
                IF client_error(result.error.status_code)
                THEN done("error", "client_error", FALSE)
                ELSE done("", "", TRUE)     \* raise self.retry(exc=e)
          [] result.outcome = "raise" /\ result.error.type = "RequestError" ->
                done("", "", TRUE)          \* raise self.retry(exc=e)
          [] OTHER -> done("error", "unexpected_error", FALSE)

\* UpsertSpec: the worker takes a message; the client call of the task ends
\* (CallUpsert), for any message, max_retries and answers of the service;
\* the task ends on that outcome (CallTask); the worker is free again.
CallUpsert ==
    /\ call = NoCall
    /\ \E max_retries \in 0..MaxRetries, data \in Messages,
          answers \in AnswerLists :
        call' = [fn  |-> "upsert_disclosure",
                 arg |-> [max_retries |-> max_retries, data |-> data,
                          answers |-> answers],
                 ret |-> upsert_disclosure(max_retries, data.rcept_no, data,
                                           answers)]
    /\ UNCHANGED otherVars

CallTask ==
    /\ call.fn = "upsert_disclosure"
    /\ call' = [fn  |-> "process_disclosure",
                arg |-> call.arg,
                ret |-> process_disclosure(call.arg.max_retries, call.arg.data,
                                           call.arg.answers)]
    /\ UNCHANGED otherVars

TaskEnds ==
    /\ call.fn = "process_disclosure"
    /\ call' = NoCall
    /\ UNCHANGED otherVars

UpsertNext == CallUpsert \/ CallTask \/ TaskEnds

UpsertSpec == Init /\ [][UpsertNext]_vars

(***************************************************************************)
(* Properties of the consumer, checked under UpsertSpec.                   *)
(***************************************************************************)
is_4xx(answer) ==
    answer.kind = "response" /\ answer.status_code \in 400..499

is_5xx(answer) ==
    answer.kind = "response" /\ answer.status_code \in 500..599

\* C24: a PUT answered with a status in 400..499 is the last PUT of the
\* call and upsert_disclosure raises that error; when the first PUT is
\* answered so, exactly one PUT is made whatever max_retries is; the task
\* process_disclosure then returns an error result and schedules no retry.
C24_ClientErrorTerminal ==
    /\ call.fn \in {"upsert_disclosure", "process_disclosure"} =>
          /\ \A i \in 1..Len(call.ret.puts) :
                is_4xx(call.ret.puts[i]) => i = Len(call.ret.puts)
          /\ call.arg.max_retries >= 1 /\ is_4xx(call.arg.answers[1]) =>
                call.ret.puts = <<call.arg.answers[1]>>
    /\ call.fn = "upsert_disclosure" /\ call.ret.puts # << >>
          /\ is_4xx(call.ret.puts[Len(call.ret.puts)]) =>
          /\ call.ret.outcome = "raise"
          /\ call.ret.error =
                [type        |-> "HTTPStatusError",
                 status_code |-> call.ret.puts[Len(call.ret.puts)].status_code]
    /\ call.fn = "process_disclosure" /\ call.ret.puts # << >>
          /\ is_4xx(call.ret.puts[Len(call.ret.puts)]) =>
          /\ call.ret.status = "error"
          /\ ~call.ret.retry

C24_Witness ==
    /\ call.fn = "process_disclosure"
    /\ call.arg.max_retries = 3
    /\ call.arg.answers[1].status_code = 499
    /\ Len(call.ret.puts) = 1
    /\ call.ret.status = "error"
    /\ ~call.ret.retry

\* C25: for max_retries >= 1 upsert_disclosure makes at most max_retries
\* PUT requests; after a 5xx answer or a transport error it makes the next
\* one while requests are left; it returns on the first success and makes
\* no request after it; when max_retries requests all fail that way it
\* raises the error of the last one.
retryable(answer) == is_5xx(answer) \/ answer.kind = "RequestError"

succeeded(answer) ==
    answer.kind = "response" /\ answer.status_code \in 200..299 /\ answer.json_ok

C25_BoundedRetry ==
    call.fn = "upsert_disclosure" /\ call.arg.max_retries >= 1 =>
        LET n       == call.arg.max_retries
            answers == call.arg.answers
            puts    == call.ret.puts
        IN  /\ Len(puts) \in 1..n
            /\ \A i \in 1..Len(puts) : puts[i] = answers[i]
            /\ \A i \in 1..(Len(puts) - 1) : retryable(puts[i])
            /\ retryable(puts[Len(puts)]) => Len(puts) = n
            /\ call.ret.outcome = "return" <=> succeeded(puts[Len(puts)])
            /\ (\A i \in 1..n : retryable(answers[i])) =>
                  /\ Len(puts) = n
                  /\ call.ret.outcome = "raise"
                  /\ call.ret.error = error_of(answers[n])

C25_Witness ==
    /\ call.fn = "upsert_disclosure"
    /\ call.arg.max_retries = 3
    /\ call.arg.answers[1].kind = "RequestError"
    /\ call.arg.answers[2].status_code = 500
    /\ call.arg.answers[3].status_code = 201
    /\ call.ret.outcome = "return"
    /\ Len(call.ret.puts) = 3

\* "YYYYMMDD" as the ISO-8601 UTC timestamp of that day's midnight
iso8601(rcept_dt) ==
    SubSeq(rcept_dt, 1, 4) \o "-" \o SubSeq(rcept_dt, 5, 6) \o "-"
        \o SubSeq(rcept_dt, 7, 8) \o "T00:00:00Z"

\* C26: the JSON body sent by upsert_disclosure carries report_nm under
\* reportName, corp_code under corpCode, corp_name under corpName, object_key
\* under minioObjectName and rcept_dt, as an ISO-8601 UTC timestamp, under
\* receptionDate.
C26_PayloadShape ==
    call.fn = "upsert_disclosure" =>
        LET json == call.ret.json
            data == call.arg.data
            carries(key, value) == key \in DOMAIN json /\ json[key] = value
        IN  /\ carries("reportName", data.report_nm)
            /\ carries("corpCode", data.corp_code)
            /\ carries("corpName", data.corp_name)
            /\ carries("minioObjectName", data.object_key)
            /\ carries("receptionDate", iso8601(data.rcept_dt))

(***************************************************************************)
(* The normalizer on the bytes themselves (services/content_normalizer.py).*)
(* A document is described by what the code reads from it: the kind        *)
(* sniff_kind finds, its length, the encoding it declares, what chardet    *)
(* answers, and the set of codecs that decode it strictly.  An archive is  *)
(* described by whether ZipFile opens it and by its entry list.            *)
(***************************************************************************)
KIND_PRIORITY_xml_first == <<"xml", "html", "bin">>

KIND_PRIORITY == <<"html", "xml", "bin">>

MAX_FILES == 200

MAX_TOTAL_UNCOMPRESSED == 200 * 1024 * 1024

KOREAN_ENCODING_PRIORITY ==
    <<"utf-8-sig", "utf-8", "cp949", "euc-kr", "iso-8859-1">>

\* an encoding name the codec registry does not know
UnknownCodec == "x-unknown"

\* the codec names of the model: the chain, one more the registry knows,
\* and one it does not
Codecs ==
    {"utf-8-sig", "utf-8", "cp949", "euc-kr", "iso-8859-1", "windows-1252",
     UnknownCodec}

\* the sets of codecs that decode some byte string strictly: iso-8859-1
\* decodes every byte string, utf-8-sig decodes what utf-8 decodes, cp949
\* decodes what euc-kr decodes
DecodableSets ==
    {{"utf-8-sig", "utf-8", "cp949", "euc-kr", "iso-8859-1", "windows-1252"},
     {"utf-8-sig", "utf-8", "iso-8859-1"},
     {"cp949", "euc-kr", "iso-8859-1", "windows-1252"},
     {"cp949", "iso-8859-1"},
     {"windows-1252", "iso-8859-1"},
     {"iso-8859-1"}}

\* _build_encoding_candidates; auto_conf is chardet's confidence in tenths
build_encoding_candidates(declared, auto, auto_conf) ==
    LET c1 == IF declared # PyNone THEN <<declared>> ELSE << >>
        in(seq, enc) == \E i \in 1..Len(seq) : seq[i] = enc
        c2 == IF auto # PyNone /\ auto_conf > 7 /\ ~in(c1, auto)
              THEN Append(c1, auto) ELSE c1
        c3 == c2 \o SelectSeq(KOREAN_ENCODING_PRIORITY,
                              LAMBDA enc : ~in(c2, enc))
    IN  IF auto # PyNone /\ ~in(c3, auto) THEN Append(c3, auto) ELSE c3

\* The loop of _to_utf8_with_rewrite from candidate i on: bytes.decode with
\* a name the registry does not know raises LookupError, which the except
\* clause (UnicodeDecodeError, UnicodeEncodeError) does not catch.
RECURSIVE try_candidates(_, _, _)
try_candidates(data, candidates, i) ==
    IF i > Len(candidates)
    THEN [outcome |-> "return", used_enc |-> "cp949-fallback", tried |-> i - 1]
    ELSE IF candidates[i] = UnknownCodec
    THEN [outcome |-> "raise", used_enc |-> "LookupError", tried |-> i]
    ELSE IF candidates[i] \in data.decodable
    THEN [outcome |-> "return", used_enc |-> candidates[i], tried |-> i]
    ELSE try_candidates(data, candidates, i + 1)

to_utf8_with_rewrite(data) ==
    try_candidates(data,
                   build_encoding_candidates(data.declared, data.auto,
                                             data.auto_conf), 1)

\* The encoding declarations in a document's text, in the order they stand
\* in it: the form ("xml": an XML declaration, "meta": a meta tag with a
\* charset), whether it opens the text, and the encoding it names.
declarations(data) ==
    LET xml(at_start) == [form |-> "xml", at_start |-> at_start,
                          enc |-> data.declared]
        meta          == [form |-> "meta", at_start |-> FALSE,
                          enc |-> data.declared]
    IN  CASE data.layout = "xml_decl"      -> <<xml(TRUE)>>
          [] data.layout = "xml_decl_late" -> <<xml(FALSE)>>
          [] data.layout = "meta"          -> <<meta>>
          [] data.layout = "xhtml"         -> <<xml(TRUE), meta>>
          [] data.layout = "xhtml_bare"    -> <<xml(TRUE)>>
          [] OTHER                         -> << >>

Utf8Meta == [form |-> "meta", at_start |-> FALSE, enc |-> "UTF-8"]

Utf8XmlDecl == [form |-> "xml", at_start |-> TRUE, enc |-> "UTF-8"]

\* _rewrite_html_encoding: every meta charset, in either notation, becomes
\* <meta charset="UTF-8">; without one the tag is put after <head>, which
\* every html document of the model has, behind an XML declaration
rewrite_html_encoding(decls) ==
    IF \E i \in 1..Len(decls) : decls[i].form = "meta"
    THEN [i \in 1..Len(decls) |->
             IF decls[i].form = "meta" THEN Utf8Meta ELSE decls[i]]
    ELSE Append(decls, Utf8Meta)

\* _rewrite_xml_encoding: _XML_DECL_REPL matches an XML declaration only
\* where the text begins; otherwise a new declaration is put in front
rewrite_xml_encoding(decls) ==
    IF decls # << >> /\ decls[1].form = "xml" /\ decls[1].at_start
    THEN <<Utf8XmlDecl>> \o Tail(decls)
    ELSE <<Utf8XmlDecl>> \o
         [i \in 1..Len(decls) |-> [decls[i] EXCEPT !.at_start = FALSE]]

rewrite_encoding_declaration(decls, kind) ==
    CASE kind = "html" -> rewrite_html_encoding(decls)
      [] kind = "xml"  -> rewrite_xml_encoding(decls)
      [] OTHER         -> decls

\* _safe_zip_members: the entries that are not directories, or ValueError
not_dirs(infolist) == SelectSeq(infolist, LAMBDA info : ~info.is_dir)

\* sum(i.file_size for i in infos), by halves
RECURSIVE sum_sizes(_, _, _)
sum_sizes(infos, lo, hi) ==
    IF lo > hi THEN 0
    ELSE IF lo = hi THEN infos[lo].file_size
    ELSE sum_sizes(infos, lo, (lo + hi) \div 2)
            + sum_sizes(infos, (lo + hi) \div 2 + 1, hi)

total_size(infos) == sum_sizes(infos, 1, Len(infos))

safe_zip_members_inclusive(infolist) ==
    LET infos == not_dirs(infolist)
    IN  IF Len(infos) >= MAX_FILES THEN [raises |-> TRUE, infos |-> << >>]
        ELSE IF total_size(infos) >= MAX_TOTAL_UNCOMPRESSED
        THEN [raises |-> TRUE, infos |-> << >>]
        ELSE [raises |-> FALSE, infos |-> infos]

safe_zip_members(infolist) ==
    LET infos == not_dirs(infolist)
    IN  IF Len(infos) > MAX_FILES THEN [raises |-> TRUE, infos |-> << >>]
        ELSE IF total_size(infos) > MAX_TOTAL_UNCOMPRESSED
        THEN [raises |-> TRUE, infos |-> << >>]
        ELSE [raises |-> FALSE, infos |-> infos]

\* KIND_PRIORITY.index(kind)
kind_priority(kind) == CHOOSE i \in 1..Len(KIND_PRIORITY) : KIND_PRIORITY[i] = kind

\* sort_key (kind_priority, -len(data)) compared as Python compares tuples
key_le(m1, m2) ==
    \/ kind_priority(m1.kind) < kind_priority(m2.kind)
    \/ /\ kind_priority(m1.kind) = kind_priority(m2.kind)
       /\ m1.size >= m2.size

\* members.sort(key=sort_key); members[0]: the sort is stable, so the first
\* of the members with the least key
pick_best(members) ==
    LET least == {i \in 1..Len(members) :
                     \A j \in 1..Len(members) : key_le(members[i], members[j])}
    IN  members[CHOOSE i \in least : \A j \in least : i <= j]

\* the first entry zf.read fails on, 0 when every entry is read
first_unreadable(infos) ==
    LET bad == {i \in 1..Len(infos) : infos[i].read # "ok"}
    IN  IF bad = {} THEN 0 ELSE CHOOSE i \in bad : \A j \in bad : i <= j

\* the result of normalize_payload: outcome "return" with the triple
\* (content_type; the bytes by their origin: the body as given, or data in
\* used_enc re-encoded; final_name) or outcome "raise" with the error
returned(content_type, origin, data, used_enc, final_name, reads) ==
    [outcome |-> "return", error |-> "", content_type |-> content_type,
     origin |-> origin, data |-> data, used_enc |-> used_enc,
     final_name |-> final_name, reads |-> reads, declarations |-> << >>]

raised(error, reads) ==
    [outcome |-> "raise", error |-> error, content_type |-> "",
     origin |-> "", data |-> << >>, used_enc |-> "", final_name |-> "",
     reads |-> reads, declarations |-> << >>]

\* the html, xml and bin branches, of normalize_payload for a body and of
\* _normalize_zip for the picked member
normalize_data(base_name, data, origin, reads) ==
    IF data.kind = "bin"
    THEN returned("application/octet-stream", origin, data, "", base_name, reads)
    ELSE LET conv == to_utf8_with_rewrite(data)
             \* the declarations of the re-encoded bytes
             decls == rewrite_encoding_declaration(declarations(data),
                                                   data.kind)
         IN  IF conv.outcome = "raise" THEN raised(conv.used_enc, reads)
             ELSE IF data.kind = "html"
             THEN [returned("text/html; charset=UTF-8", origin, data,
                            conv.used_enc, base_name \o ".html", reads)
                      EXCEPT !.declarations = decls]
             ELSE [returned("application/xml; charset=UTF-8", origin, data,
                            conv.used_enc, base_name \o ".xml", reads)
                      EXCEPT !.declarations = decls]

\* _normalize_zip: BadZipFile and ValueError give the body back as a .zip
\* blob; zf.read raises RuntimeError on an encrypted entry, BadZipFile on a
\* bad CRC and zlib.error on a corrupt stream
normalize_zip(base_name, body) ==
    LET failed(reads) == returned("application/octet-stream", "body", << >>,
                                  "", base_name \o ".zip", reads)
        safe   == safe_zip_members(body.infolist)
        infos  == safe.infos
        unread == first_unreadable(infos)
    IN  IF ~body.opens THEN failed(0)
        ELSE IF safe.raises THEN failed(0)
        ELSE IF infos = << >> THEN failed(0)
        ELSE IF unread # 0
        THEN IF infos[unread].read = "bad_crc" THEN failed(unread)
             ELSE IF infos[unread].read = "encrypted"
             THEN raised("RuntimeError", unread)
             ELSE raised("zlib.error", unread)
        ELSE normalize_data(base_name,
                            pick_best([i \in 1..Len(infos) |-> infos[i].data]),
                            "member", Len(infos))

\* normalize_payload on the bytes: a body with the ZIP signature is an
\* archive whatever sniff_kind says
normalize_bytes(object_key, body) ==
    LET base_name == safe_ascii_name(get_base_name(object_key))
    IN  IF body.zip_sig THEN normalize_zip(base_name, body)
        ELSE normalize_data(base_name, body.data, "body", 0)

(***************************************************************************)
(* The inputs of the normalizer.                                           *)
(***************************************************************************)
AllDecodable ==
    {"utf-8-sig", "utf-8", "cp949", "euc-kr", "iso-8859-1", "windows-1252"}

\* a document of a kind and a length that declares no encoding
PlainDoc(kind, size) ==
    [kind |-> kind, size |-> size, declared |-> PyNone, layout |-> "none",
     auto |-> PyNone, auto_conf |-> 0, decodable |-> AllDecodable]

NoDoc == PlainDoc("bin", 0)

\* what chardet.detect answers: no encoding, or one with a confidence at or
\* above the 0.7 of _build_encoding_candidates (in tenths)
Detections ==
    {<<PyNone, 0>>} \cup ({"utf-8", "cp949", "windows-1252"} \X {7, 8})

\* Where a document of a kind may declare its encoding: in an XML
\* declaration that opens the document ("xml_decl") or follows leading
\* white space ("xml_decl_late"), in a meta tag of the head ("meta"), or, for
\* XHTML, in an XML declaration that opens the document, with a meta tag
\* ("xhtml") or with a head without one ("xhtml_bare").  sniff_kind finds
\* html before it looks for "<?xml".
Layouts(kind) ==
    CASE kind = "xml"  -> {"xml_decl", "xml_decl_late"}
      [] kind = "html" -> {"meta", "xhtml", "xhtml_bare"}
      [] OTHER         -> {}

\* the encoding a document declares and where: none, or a name in one of
\* the layouts of its kind
Declarations(kind) ==
    {<<PyNone, "none">>}
    \cup ({"utf-8", "euc-kr", "windows-1252", UnknownCodec} \X Layouts(kind))

\* documents with every declaration, detection and decodability
EncDocs ==
    UNION {{[kind |-> kind, size |-> 1, declared |-> decl[1],
             layout |-> decl[2], auto |-> det[1], auto_conf |-> det[2],
             decodable |-> dec] :
                decl \in Declarations(kind), det \in Detections,
                dec \in DecodableSets} :
           kind \in {"html", "xml", "bin"}}

\* an archive entry: ZipInfo.is_dir(), ZipInfo.file_size, what zf.read does
\* with it, and the data it decompresses to
Entry(data, read) ==
    [is_dir |-> FALSE, file_size |-> data.size, read |-> read, data |-> data]

DirEntry == [is_dir |-> TRUE, file_size |-> 0, read |-> "ok", data |-> NoDoc]

Archive(infolist) ==
    [zip_sig |-> TRUE, opens |-> TRUE, infolist |-> infolist, data |-> NoDoc]

\* bytes with the ZIP signature that ZipFile refuses (BadZipFile)
BrokenArchive ==
    [zip_sig |-> TRUE, opens |-> FALSE, infolist |-> << >>, data |-> NoDoc]

PlainBody(data) ==
    [zip_sig |-> FALSE, opens |-> FALSE, infolist |-> << >>, data |-> data]

PlainEntries ==
    {Entry(PlainDoc(kind, size), "ok") :
        kind \in {"html", "xml", "bin"}, size \in 1..2} \cup {DirEntry}

\* every archive of up to MaxMembers readable entries, in every order
PlainArchives ==
    {Archive(infolist) :
        infolist \in UNION {[1..n -> PlainEntries] : n \in 0..MaxMembers}}

Reads == {"ok", "encrypted", "bad_crc", "zlib_error"}

\* archives of one or two entries that zf.read may fail on
UnreadableArchives ==
    {Archive(infolist) :
        infolist \in UNION {[1..n -> {Entry(PlainDoc("html", 1), read) :
                                         read \in Reads}] : n \in 1..2}}

\* archives of one entry with every declaration, detection and decodability
EncArchives == {Archive(<<Entry(data, "ok")>>) : data \in EncDocs}

\* n entries of binary data, each of the given length but the last
Filled(n, each, final) ==
    Archive([i \in 1..n |->
                Entry(PlainDoc("bin", IF i = n THEN final ELSE each), "ok")])

MB == 1024 * 1024

\* archives at and around the limits of _safe_zip_members
LimitArchives ==
    {Filled(n, 1, 1) : n \in (MAX_FILES - 1)..(MAX_FILES + 1)}
    \cup {Filled(MAX_FILES, MB, MB + d) : d \in {-1, 0, 1}}
    \cup {Filled(MAX_FILES + 1, MB, 1),
          Archive(Append(Filled(MAX_FILES, MB, MB).infolist, DirEntry)),
          Archive(<<Entry(PlainDoc("bin", MAX_TOTAL_UNCOMPRESSED), "ok")>>)}

Bodies ==
    PlainArchives \cup UnreadableArchives \cup EncArchives \cup LimitArchives
    \cup {BrokenArchive} \cup {PlainBody(data) : data \in EncDocs}

\* NormalizeSpec: one call of the normalizer, or of its candidate list,
\* after another
CallNormalize ==
    /\ call = NoCall
    /\ \E no \in RceptNos, body \in Bodies :
        call' = [fn  |-> "normalize_payload",
                 arg |-> [object_key |-> no, body |-> body],
                 ret |-> normalize_bytes(no, body)]
    /\ UNCHANGED otherVars

CallCandidates ==
    /\ call = NoCall
    /\ \E declared \in Codecs \cup {PyNone}, det \in Detections :
        call' = [fn  |-> "_build_encoding_candidates",
                 arg |-> [declared |-> declared, auto |-> det[1],
                          auto_conf |-> det[2]],
                 ret |-> build_encoding_candidates(declared, det[1], det[2])]
    /\ UNCHANGED otherVars

CallReturns ==
    /\ call.fn \in {"normalize_payload", "_build_encoding_candidates"}
    /\ call' = NoCall
    /\ UNCHANGED otherVars

NormalizeNext == CallNormalize \/ CallCandidates \/ CallReturns

NormalizeSpec == Init /\ [][NormalizeNext]_vars

(***************************************************************************)
(* Properties of the normalizer, checked under NormalizeSpec.              *)
(***************************************************************************)
\* the call normalized an archive and selected one of its members
picked_member ==
    /\ call.fn = "normalize_payload"
    /\ call.ret.outcome = "return"
    /\ call.ret.origin = "member"

\* html before xml before binary
rank(kind) == CASE kind = "html" -> 1 [] kind = "xml" -> 2 [] OTHER -> 3

\* the entry list in another order
reordered(infolist, p) == [i \in 1..Len(infolist) |-> infolist[p[i]]]

orders(n) == {p \in [1..n -> 1..n] : \A i, j \in 1..n : p[i] = p[j] => i = j}

\* C27: from an archive with at least one member that is not a directory
\* the normalizer selects a member of the best kind present, html before xml
\* before binary, and of the greatest length among the members of that
\* kind; the kind and the length of the selected member are the same for
\* every order of the archive's entries.
C27_MemberPriority ==
    picked_member =>
        LET infolist == call.arg.body.infolist
            files    == not_dirs(infolist)
            picked   == call.ret.data
        IN  /\ \E i \in 1..Len(files) : files[i].data = picked
            /\ \A i \in 1..Len(files) :
                  \/ rank(picked.kind) < rank(files[i].data.kind)
                  \/ /\ picked.kind = files[i].data.kind
                     /\ picked.size >= files[i].data.size
            /\ call.ret.content_type =
                  CASE picked.kind = "html" -> "text/html; charset=UTF-8"
                    [] picked.kind = "xml"  -> "application/xml; charset=UTF-8"
                    [] OTHER                -> "application/octet-stream"
            /\ Len(infolist) <= MaxMembers =>
                  \A p \in orders(Len(infolist)) :
                      LET other == normalize_bytes(call.arg.object_key,
                                        Archive(reordered(infolist, p)))
                      IN  /\ other.outcome = "return"
                          /\ other.data.kind = picked.kind
                          /\ other.data.size = picked.size

\* an archive with a larger binary member before a smaller HTML member
C27_Witness ==
    /\ picked_member
    /\ Len(call.arg.body.infolist) = 3
    /\ call.arg.body.infolist[1].data = PlainDoc("bin", 2)
    /\ call.arg.body.infolist[2].data = PlainDoc("html", 1)
    /\ call.arg.body.infolist[3].data = PlainDoc("html", 2)
    /\ call.ret.data = PlainDoc("html", 2)

\* C28: normalize_payload raises for no input: every call returns a triple
\* of content type, bytes and file name, whatever fails inside it.
C28_NeverRaises ==
    call.fn = "normalize_payload" =>
        /\ call.ret.outcome = "return"
        /\ call.ret.content_type # ""
        /\ call.ret.final_name # ""

\* the archive of the call is one the claim C29 speaks of
archive_call == call.fn = "normalize_payload" /\ call.arg.body.zip_sig

files_of_call == not_dirs(call.arg.body.infolist)

over_limit ==
    \/ Len(files_of_call) > 200
    \/ total_size(files_of_call) > 200 * 1024 * 1024

zip_blob ==
    /\ call.ret.outcome = "return"
    /\ call.ret.content_type = "application/octet-stream"
    /\ call.ret.origin = "body"
    /\ call.ret.used_enc = ""
    /\ call.ret.final_name =
          safe_ascii_name(get_base_name(call.arg.object_key)) \o ".zip"

\* C29: a body with the ZIP signature that has more than 200 entries that
\* are not directories, or entries whose declared lengths sum to more than
\* 200 MB, or that is empty or cannot be opened, comes back unchanged as an
\* octet-stream named {base}.zip and none of its members is read; an
\* archive of exactly 200 entries and exactly 200 MB is accepted.
C29_SafetyLimits ==
    archive_call =>
        /\ ~call.arg.body.opens \/ over_limit \/ files_of_call = << >> =>
              zip_blob /\ call.ret.reads = 0
        /\ /\ call.arg.body.opens
           /\ Len(files_of_call) = 200
           /\ total_size(files_of_call) = 200 * 1024 * 1024
           /\ \A i \in 1..200 : files_of_call[i].read = "ok"
           => /\ call.ret.outcome = "return"
              /\ call.ret.origin = "member"
              /\ call.ret.reads = 200

C29_Witness ==
    /\ archive_call
    /\ call.arg.body.opens
    /\ Len(files_of_call) = 201
    /\ total_size(files_of_call) = 201
    /\ zip_blob
    /\ call.ret.reads = 0

\* the declared encoding, if any, then the chain of six, without repeats
six_chain ==
    <<"utf-8-sig", "utf-8", "cp949", "euc-kr", "windows-1252", "iso-8859-1">>

declared_then_chain(declared) ==
    IF declared = PyNone THEN six_chain
    ELSE <<declared>> \o SelectSeq(six_chain, LAMBDA enc : enc # declared)

\* C30: the encodings tried for an html or xml payload are the declared
\* encoding, if any, followed by utf-8-sig, utf-8, cp949, euc-kr,
\* windows-1252, iso-8859-1, without repeats and in that order; the first
\* of them that decodes the payload strictly is the one used.
C30_CandidateOrder ==
    /\ call.fn = "_build_encoding_candidates" =>
          call.ret = declared_then_chain(call.arg.declared)
    /\ call.fn = "normalize_payload" /\ call.ret.outcome = "return"
          /\ call.ret.data # << >> /\ call.ret.data.kind # "bin" =>
          LET tried == declared_then_chain(call.ret.data.declared)
              first == CHOOSE i \in 1..Len(tried) :
                          /\ tried[i] \in call.ret.data.decodable
                          /\ \A j \in 1..(i - 1) :
                                tried[j] \notin call.ret.data.decodable
          IN  call.ret.used_enc = tried[first]

\* the kind a returned result resolved to: the body given back as a failed
\* archive, or the kind of the document the bytes come from
resolved_kind ==
    IF call.arg.body.zip_sig /\ call.ret.origin = "body" THEN "zip"
    ELSE call.ret.data.kind

textual(content_type) ==
    content_type \in {"text/html; charset=UTF-8",
                      "application/xml; charset=UTF-8"}

\* C31: in every result of normalize_payload the content type and the
\* extension of the file name agree with the resolved kind, and when the
\* content type is text/* or application/xml the bytes are UTF-8 and every
\* encoding declaration in them says UTF-8.
C31_PayloadConsistency ==
    call.fn = "normalize_payload" /\ call.ret.outcome = "return" =>
        LET base == safe_ascii_name(get_base_name(call.arg.object_key))
            ret  == call.ret
        IN  /\ CASE resolved_kind = "html" ->
                      /\ ret.content_type = "text/html; charset=UTF-8"
                      /\ ret.final_name = base \o ".html"
                 [] resolved_kind = "xml" ->
                      /\ ret.content_type = "application/xml; charset=UTF-8"
                      /\ ret.final_name = base \o ".xml"
                 [] resolved_kind = "bin" ->
                      /\ ret.content_type = "application/octet-stream"
                      /\ ret.final_name = base
                 [] OTHER ->
                      /\ ret.content_type = "application/octet-stream"
                      /\ ret.final_name = base \o ".zip"
            /\ textual(ret.content_type) =>
                  /\ ret.used_enc # ""
                  /\ \A i \in 1..Len(ret.declarations) :
                        ret.declarations[i].enc \in {"UTF-8", "utf-8"}

(***************************************************************************)
(* Further properties of the pipeline and of ProcessingState.              *)
(***************************************************************************)
\* C33: when the existence check fails with an error other than not-found,
\* in that attempt no document is fetched, nothing is uploaded and nothing
\* is enqueued for the item, a failure is recorded for it (failure record
\* and record_failure), and it is neither marked processed nor skipped.
C33_ExistsErrorBooked ==
    last.outcome = "exists_raised" =>
        /\ ~last.fetched
        /\ ~last.upload_called
        /\ ~last.send_called
        /\ last.rcept_no \notin state.processed
        /\ last.recorded # ""
        /\ last.rf_called

\* the call the last step of StateSpec made
made == log'[Len(log')]

others_kept(id) ==
    \A no \in RceptNos \ {id} :
        /\ no \in DOMAIN state.failed_attempts
              <=> no \in DOMAIN state'.failed_attempts
        /\ no \in DOMAIN state.failed_attempts =>
              state'.failed_attempts[no] = state.failed_attempts[no]

\* C34: mark_processed(id) adds id to processed, adds one to success_count
\* and removes id's failure counter; mark_skipped(id) adds id to processed
\* and adds one to skip_count without changing success_count; both leave
\* permanently_failed, error_count and the failure counters of the other
\* identifiers as they were.
C34_MarkFrame ==
    [][Len(log') = Len(log) + 1 =>
          /\ made.op = "mark_processed" =>
                /\ state'.processed = state.processed \cup {made.rcept_no}
                /\ state'.success_count = state.success_count + 1
                /\ state'.skip_count = state.skip_count
                /\ made.rcept_no \notin DOMAIN state'.failed_attempts
          /\ made.op = "mark_skipped" =>
                /\ state'.processed = state.processed \cup {made.rcept_no}
                /\ state'.skip_count = state.skip_count + 1
                /\ state'.success_count = state.success_count
          /\ made.op \in {"mark_processed", "mark_skipped"} =>
                /\ state'.permanently_failed = state.permanently_failed
                /\ state'.error_count = state.error_count
                /\ others_kept(made.rcept_no)]_vars

\* mark_processed on an identifier with a failure counter, and mark_skipped
\* on the other identifier
C34_Witness ==
    /\ max_fail = 2
    /\ Len(log) = 3
    /\ log[1].op = "record_failure"
    /\ log[2].op = "mark_processed"
    /\ log[2].rcept_no = log[1].rcept_no
    /\ log[3].op = "mark_skipped"
    /\ log[3].rcept_no # log[1].rcept_no
    /\ state.processed = RceptNos
    /\ state.failed_attempts = EmptyDict
    /\ state.success_count = 1
    /\ state.skip_count = 1
    /\ state.error_count = 1

\* C37: in every state of the polling loop between two items the number of
\* processed identifiers is success_count + skip_count + the number of
\* permanently failed identifiers.
C37_CounterConservation ==
    Cardinality(state.processed)
        = state.success_count + state.skip_count
            + Cardinality(state.permanently_failed)

\* one identifier was booked as a success and the other failed permanently
C37_Witness ==
    /\ state.success_count = 1
    /\ state.skip_count = 0
    /\ Cardinality(state.permanently_failed) = 1
    /\ Cardinality(state.processed) = 2
    /\ last.outcome = "perm_failed"

\* C38: in every state of the polling loop between two items no identifier
\* with a failure counter is processed, an item that failed in one cycle and
\* is skipped in a later one included.
C38_PendingRetryAccurate ==
    DOMAIN state.failed_attempts \cap state.processed = {}

\* the message the step put on the queue
emitted == queue'[Len(queue')]

\* C39: a message for a rcept_no is put on the queue only after the upload
\* of its object succeeded in the same attempt: when it is emitted its
\* object_key names an object in the store; an attempt whose upload failed
\* or that was skipped emits none.
C39_StoreBeforeEnqueue ==
    /\ [][/\ Len(queue') >= Len(queue)
          /\ Len(queue') > Len(queue) =>
                /\ Len(queue') = Len(queue) + 1
                /\ emitted.rcept_no = last'.rcept_no
                /\ last'.upload_called
                /\ last'.uploaded = emitted.object_key
                /\ emitted.object_key \in bucket'
                /\ last'.sent]_vars
    /\ [](last.send_called => last.uploaded # "" /\ last.uploaded \in bucket)
    /\ [](last.outcome \in {"exists_skip", "too_small", "already",
                            "exists_raised"}
            \/ (last.upload_called /\ last.uploaded = "")
          => ~last.send_called /\ ~last.sent)

\* an attempt whose message was emitted after a failed upload of the same
\* record in an earlier attempt
C39_Witness ==
    /\ last.outcome = "success"
    /\ last.sent
    /\ last.uploaded \in bucket
    /\ state.error_count = 1
    /\ Len(queue) = 1
    /\ queue[1].object_key = last.uploaded
    /\ queue[1].rcept_no = last.rcept_no

\* C36: within one process lifetime the document of a rcept_no is fetched
\* at most max_fail times, whatever the outcomes of fetch, normalization,
\* upload and enqueue and however many cycles list the record.
C36_BoundedFetches ==
    \A no \in RceptNos : life.fetches[no] <= max_fail

\* a record fetched max_fail times, failing each time
C36_Witness ==
    /\ max_fail = 2
    /\ last.outcome = "perm_failed"
    /\ life.fetches[last.rcept_no] = 2
    /\ last.rcept_no \in state.permanently_failed

(***************************************************************************)
(* MockSpec: calls of fetch_disclosure_list and fetch_disclosures on one   *)
(* MockDartApiClient (services/mock_dart_client.py:75-152).                *)
(***************************************************************************)
\* _generate_rcept_no without its membership test
generate_rcept_no_unchecked(generated, date_str) ==
    {format_rcept_no(date_str, seq) : seq \in Seqs}

\* _generate_rcept_no: the values one call can return.  The loop draws
\* again until the value drawn is not in the set (and never ends once every
\* sequence number of the date is in it).
generate_rcept_no(generated, date_str) ==
    {format_rcept_no(date_str, seq) : seq \in Seqs} \ generated

\* the for loop of fetch_disclosure_list: the lists n rounds can build,
\* each round adding the value it generated to the set.  An item is kept
\* by its rcept_no and rcept_dt; the other fields are random samples.
RECURSIVE generate_items(_, _, _)
generate_items(generated, target_date, n) ==
    IF n = 0
    THEN {<< >>}
    ELSE UNION {
           {<<[rcept_no |-> r, rcept_dt |-> target_date]>> \o rest :
              rest \in generate_items(generated \cup {r}, target_date, n - 1)}
           : r \in generate_rcept_no(generated, target_date)}

\* random.randint(3, 8), cut to half the sequence numbers there are, so
\* that a second list can be generated for a date
Counts == {n \in NumLow..NumHigh : 2 * n <= MaxSeqs}

rcept_nos_of(items) == {items[i].rcept_no : i \in 1..Len(items)}

\* the object after a call that generated `items`
generated_by(fn, date, items, ret) ==
    [_generated_rcept_nos |-> mock._generated_rcept_nos \cup rcept_nos_of(items),
     fn       |-> fn,
     date     |-> date,
     ret      |-> ret,
     returned |-> [r \in DOMAIN mock.returned \cup rcept_nos_of(items) |->
                     (IF r \in DOMAIN mock.returned
                      THEN mock.returned[r] ELSE 0)
                     + Cardinality({i \in 1..Len(items) :
                                      items[i].rcept_no = r})]]

fetch_disclosure_list ==
    \E target_date \in Dates, num_disclosures \in Counts :
      \E disclosures \in generate_items(mock._generated_rcept_nos,
                                        target_date, num_disclosures) :
        /\ day_of(target_date) >= day_of(mock.date)
        /\ mock' = generated_by("fetch_disclosure_list", target_date,
                                disclosures, disclosures)
        /\ UNCHANGED <<stateVars, loopVars, worldVars, obsVars, polled,
                       call, health>>

fetch_disclosures ==
    \E date \in Dates, num_disclosures \in Counts :
      \E disclosures \in generate_items(mock._generated_rcept_nos,
                                        date, num_disclosures) :
        /\ day_of(date) >= day_of(mock.date)
        /\ mock' = generated_by("fetch_disclosures", date, disclosures,
                                [status      |-> "000",
                                 total_count |-> Len(disclosures),
                                 total_page  |-> 1,
                                 list        |-> disclosures])
        /\ UNCHANGED <<stateVars, loopVars, worldVars, obsVars, polled,
                       call, health>>

MockNext == fetch_disclosure_list \/ fetch_disclosures

MockSpec == Init /\ [][MockNext]_vars

\* the list the last call returned
returned_list ==
    IF mock.fn = "fetch_disclosures" THEN mock.ret.list ELSE mock.ret

starts_with(s, prefix) ==
    /\ Len(s) >= Len(prefix)
    /\ SubSeq(s, 1, Len(prefix)) = prefix

\* C32: over any sequence of fetch_disclosure_list / fetch_disclosures
\* calls on one MockDartApiClient no rcept_no is returned twice, within a
\* call or across calls, and every rcept_no of a returned list starts with
\* the date the call asked for.
C32_MockUniqueIds ==
    /\ \A r \in DOMAIN mock.returned : mock.returned[r] <= 1
    /\ \A i \in 1..Len(returned_list) :
         starts_with(returned_list[i].rcept_no, mock.date)

\* a second call for a date all of whose first values are taken
C32_Witness ==
    /\ mock.fn # ""
    /\ Len(returned_list) >= NumLow
    /\ Cardinality({r \in mock._generated_rcept_nos :
                      starts_with(r, mock.date)}) >= 2 * NumLow

(***************************************************************************)
(* HealthSpec: main() from its start to its return, with the polling       *)
(* thread seen through the calls it makes on the health server and the     *)
(* server thread answering requests (main.py:434-572, health.py).          *)
(***************************************************************************)
HEALTHY   == "healthy"
DEGRADED  == "degraded"
UNHEALTHY == "unhealthy"

\* RabbitMQHealthChecker.check
RabbitMQHealthChecker(h) ==
    [name |-> "rabbitmq",
     status |-> IF h._connected THEN HEALTHY ELSE UNHEALTHY]

\* MinIOHealthChecker.check; list_buckets answers or raises
MinIOHealthChecker(h, list_buckets) ==
    [name |-> "minio",
     status |-> IF h._client = PyNone THEN UNHEALTHY
                ELSE IF list_buckets = "ok" THEN HEALTHY
                ELSE UNHEALTHY]

\* DartApiHealthChecker.check
DartApiHealthChecker(h) ==
    [name |-> "dart_api",
     status |-> IF h._last_success = PyNone THEN DEGRADED
                ELSE IF h._consecutive_failures > 5 THEN UNHEALTHY
                ELSE IF h._consecutive_failures > 0 THEN DEGRADED
                ELSE HEALTHY]

\* PollingHealthChecker.check
PollingHealthChecker(h) ==
    [name |-> "polling",
     status |-> IF ~h._is_running THEN UNHEALTHY ELSE HEALTHY]

\* the classes of aggregator.checkers, in the order of add_checker
checkers ==
    <<"RabbitMQHealthChecker", "MinIOHealthChecker", "DartApiHealthChecker",
      "PollingHealthChecker">>

\* [checker.check() for checker in self.checkers]
check(h, list_buckets) ==
    <<RabbitMQHealthChecker(h), MinIOHealthChecker(h, list_buckets),
      DartApiHealthChecker(h), PollingHealthChecker(h)>>

has(results, status) ==
    \E i \in 1..Len(results) : results[i].status = status

\* check_all with the DEGRADED test made first
check_all_degraded_first(results) ==
    IF has(results, DEGRADED) THEN DEGRADED
    ELSE IF has(results, UNHEALTHY) THEN UNHEALTHY
    ELSE HEALTHY

\* HealthAggregator.check_all: the overall status
check_all(results) ==
    IF has(results, UNHEALTHY) THEN UNHEALTHY
    ELSE IF has(results, DEGRADED) THEN DEGRADED
    ELSE HEALTHY

\* HealthAggregator.is_ready
is_ready(results) ==
    ~has(results, UNHEALTHY)

\* HealthAggregator.is_alive: the flag of the first polling checker
is_alive(h) ==
    IF \E i \in 1..Len(checkers) : checkers[i] = "PollingHealthChecker"
    THEN h._is_running
    ELSE TRUE

Paths == {"/", "/health", "/health/live", "/health/ready", "/metrics",
          "/favicon.ico"}

\* HealthCheckHandler.do_GET: the answer sent, with what the checkers
\* reported while it was made
do_GET(h, path, list_buckets) ==
    LET results == check(h, list_buckets) IN
    IF path \in {"/health", "/"}
    THEN [path |-> path,
          code |-> IF check_all(results) # UNHEALTHY THEN 200 ELSE 503,
          status |-> check_all(results),
          checks |-> results]
    ELSE IF path = "/health/live"
    THEN [path |-> path,
          code |-> IF is_alive(h) THEN 200 ELSE 503,
          status |-> IF is_alive(h) THEN "alive" ELSE "dead",
          checks |-> << >>]
    ELSE IF path = "/health/ready"
    THEN [path |-> path,
          code |-> IF is_ready(results) THEN 200 ELSE 503,
          status |-> IF is_ready(results) THEN "ready" ELSE "not_ready",
          checks |-> results]
    ELSE IF path = "/metrics"
    THEN [path |-> path,
          code |-> 200,
          status |-> check_all(results),
          checks |-> results]
    ELSE [path |-> path, code |-> 404, status |-> "", checks |-> << >>]

healthFrame ==
    <<stateVars, loopVars, worldVars, obsVars, polled, call, mock>>

\* main.py:457-468: start_health_server when config.health.enabled; the
\* HTTPServer binds its port or raises, and main() goes on without a server
StartHealthServer ==
    /\ health.main = "start"
    /\ \E enabled \in BOOLEAN, bound \in BOOLEAN :
         health' = IF enabled /\ bound
                   THEN [health EXCEPT !.main = "verify",
                                       !.server = HealthCheckServer]
                   ELSE [health EXCEPT !.main = "verify"]
    /\ UNCHANGED healthFrame

\* main.py:479-490: the RabbitMQ connection test
VerifyRabbitMQ ==
    /\ health.main = "verify"
    /\ \E connected \in BOOLEAN :
         health' = IF health.server # NoServer
                   THEN [health EXCEPT !.main = "clients",
                                       !.server._connected = connected]
                   ELSE [health EXCEPT !.main = "clients"]
    /\ UNCHANGED healthFrame

\* main.py:492-524: the two clients; main() returns 1 when the
\* construction of one raises
InitClients ==
    /\ health.main = "clients"
    /\ \E constructed \in BOOLEAN :
         health' = IF ~constructed
                   THEN [health EXCEPT !.main = "returned", !.exit = 1]
                   ELSE IF health.server # NoServer
                   THEN [health EXCEPT !.main = "polling",
                                       !.server._client = "MinIOClient"]
                   ELSE [health EXCEPT !.main = "polling"]
    /\ UNCHANGED healthFrame

\* main.py:526-553: GracefulShutdown installs the signal handlers and the
\* polling thread is started
StartPolling ==
    /\ health.main = "polling"
    /\ health' = [health EXCEPT !.main = "join", !.polling = "started"]
    /\ UNCHANGED healthFrame

\* main.py:303-308: polling_loop begins
PollingLoopStarts ==
    /\ health.polling = "started"
    /\ health' = IF health.server # NoServer
                 THEN [health EXCEPT !.polling = "running",
                                     !.server._is_running = TRUE]
                 ELSE [health EXCEPT !.polling = "running"]
    /\ UNCHANGED healthFrame

\* the calls process_document makes on the health server (main.py:202-203,
\* 262-263, 270-272).  record_processed and record_error count into fields
\* that only /metrics shows; they are not kept.
DocumentOutcomes == {"success", "fetch_failed", "failed_after_fetch"}

record_dart_success(h) ==
    [h EXCEPT !._last_success = "datetime", !._consecutive_failures = 0]

record_dart_failure(h) ==
    [h EXCEPT !._consecutive_failures = @ + 1]

HealthOfDocument ==
    /\ health.polling = "running"
    /\ ~health.signal
    /\ health.server # NoServer
    /\ health.server._consecutive_failures < MaxFailures
    /\ \E outcome \in DocumentOutcomes :
         health' = [health EXCEPT !.server =
                      IF outcome = "success"
                      THEN record_dart_success(@)
                      ELSE IF outcome = "fetch_failed"
                      THEN record_dart_failure(@)
                      ELSE record_dart_failure(record_dart_success(@))]
    /\ UNCHANGED healthFrame

\* main.py:142-144: SIGINT or SIGTERM, once the handlers are installed
HandleSignal ==
    /\ health.main = "join"
    /\ ~health.signal
    /\ health' = [health EXCEPT !.signal = TRUE]
    /\ UNCHANGED healthFrame

\* main.py:310, 424-431: the loop ends when the event is set
PollingLoopReturns ==
    /\ health.polling = "running"
    /\ health.signal
    /\ health' = IF health.server # NoServer
                 THEN [health EXCEPT !.polling = "returned",
                                     !.server._is_running = FALSE]
                 ELSE [health EXCEPT !.polling = "returned"]
    /\ UNCHANGED healthFrame

\* main.py:556-565 and health.py:460-465: join returns, and with a health
\* server main() calls stop(), which clears _running and calls
\* BaseServer.shutdown: shutdown sets the request flag and waits for the
\* event __is_shut_down
JoinReturns ==
    /\ health.main = "join"
    /\ health.polling = "returned"
    /\ health' = IF health.server # NoServer
                 THEN [health EXCEPT !.main = "stop",
                                     !.server._running = FALSE,
                                     !.server.shutdown_request = TRUE]
                 ELSE [health EXCEPT !.main = "stats"]
    /\ UNCHANGED healthFrame

\* health.py:465-471 and main.py:567-572: when shutdown() has returned the
\* rest of stop() is run; main() logs the final stats and returns 0.  The
\* event shutdown() waits for is set by BaseServer.serve_forever alone,
\* which _serve_forever (health.py:451-458) does not call.
MainReturns ==
    /\ health.main \in {"stop", "stats"}
    /\ health.main = "stop" => health.server.is_shut_down
    /\ health' = [health EXCEPT !.main = "returned", !.exit = 0]
    /\ UNCHANGED healthFrame

\* health.py:451-458, 337-394: a request arrives and handle_request calls
\* do_GET
HandleRequest ==
    /\ health.server # NoServer
    /\ health.server.thread = "serving"
    /\ \E path \in Paths, list_buckets \in {"ok", "raises"} :
         health' = [health EXCEPT
                      !.server.thread = "handling",
                      !.server.response = do_GET(health.server, path,
                                                 list_buckets)]
    /\ UNCHANGED healthFrame

\* handle_request returns and the test of _serve_forever's loop is made
RequestHandled ==
    /\ health.server # NoServer
    /\ health.server.thread = "handling"
    /\ health' = [health EXCEPT
                    !.server.thread = IF health.server._running
                                      THEN "serving" ELSE "exited",
                    !.server.response = NoAnswer]
    /\ UNCHANGED healthFrame

HealthNext ==
    \/ StartHealthServer
    \/ VerifyRabbitMQ
    \/ InitClients
    \/ StartPolling
    \/ PollingLoopStarts
    \/ HealthOfDocument
    \/ HandleSignal
    \/ PollingLoopReturns
    \/ JoinReturns
    \/ MainReturns
    \/ HandleRequest
    \/ RequestHandled

HealthSpec == Init /\ [][HealthNext]_vars

\* main() and the polling thread keep running: a step of theirs that can be
\* taken is taken
FairHealthSpec ==
    /\ HealthSpec
    /\ WF_vars(PollingLoopReturns)
    /\ WF_vars(JoinReturns)
    /\ WF_vars(MainReturns)

(***************************************************************************)
(* Properties of the health server, checked under HealthSpec.              *)
(***************************************************************************)
reports(results, status) ==
    \E i \in 1..Len(results) : results[i].status = status

\* the answer the server thread is sending
response ==
    IF health.server = NoServer THEN NoAnswer ELSE health.server.response

\* the server thread starts to answer a request for `path` in this step
answers(path) ==
    /\ health.server # NoServer
    /\ health.server.response = NoAnswer
    /\ health'.server.response.path = path

\* C35: the overall status is UNHEALTHY iff at least one checker reports
\* UNHEALTHY, DEGRADED iff none reports UNHEALTHY and at least one reports
\* DEGRADED, and HEALTHY iff every checker reports HEALTHY; is_ready is
\* false iff some checker is UNHEALTHY; is_alive is the running flag of the
\* polling checker, and that flag is true exactly from the start of
\* polling_loop until it returns.
C35_HealthAggregation ==
    /\ [](LET r == response IN
          /\ r.path \in {"/", "/health", "/metrics"} =>
               /\ r.status = UNHEALTHY <=> reports(r.checks, UNHEALTHY)
               /\ r.status = DEGRADED <=>
                    /\ ~reports(r.checks, UNHEALTHY)
                    /\ reports(r.checks, DEGRADED)
               /\ r.status = HEALTHY <=>
                    \A i \in 1..Len(r.checks) : r.checks[i].status = HEALTHY
          /\ r.path = "/health/ready" =>
               (r.status = "not_ready" <=> reports(r.checks, UNHEALTHY)))
    /\ [](health.server # NoServer =>
            (health.server._is_running <=> health.polling = "running"))
    /\ [][answers("/health/live") =>
            /\ health'.server.response.status = "alive"
                 <=> health.server._is_running
            /\ health'.server.response.status = "dead"
                 <=> ~health.server._is_running]_vars

\* an overall status of DEGRADED: the polling loop runs, RabbitMQ and MinIO
\* answer, and no document was fetched yet
C35_Witness ==
    /\ response.path = "/health"
    /\ response.status = DEGRADED
    /\ response.code = 200
    /\ health.polling = "running"
    /\ health.server._last_success = PyNone

\* C40: with the health server enabled, once a termination signal was
\* observed and the polling thread has returned, main() completes its
\* cleanup (HealthCheckServer.stop() returns), logs the final stats and
\* returns 0.
C40_ShutdownTerminates ==
    (/\ health.server # NoServer
     /\ health.signal
     /\ health.polling = "returned")
      ~> (health.main = "returned" /\ health.exit = 0)

====
